---- MODULE Spec2Model ----
(***************************************************************************)
(* Activity-summary pipeline of herokuNativeSFNodeAppV2.                   *)
(*                                                                         *)
(* Spec       the Bulk-Query streaming processSummary (src/index.js,       *)
(*            second program of the file, lines 1268-2429).                *)
(* FairSpec   Spec, where every step other than a stream error that stays  *)
(*            possible is eventually taken.                                *)
(* SpecFetch  the processSummary that fetches and groups all records       *)
(*            before it summarizes them (src/unnamed/part_000).            *)
(* SpecGen    one generateSummary call, in either of these programs or in  *)
(*            the first program of src/index.js (lines 1-1266).            *)
(* SpecPersist  calls of createTimileSummarySalesforceRecords for one       *)
(*            period with one lookup of existing records.                  *)
(* SpecRoute  the handler of POST /generatesummary and, behind an accepted *)
(*            request, the streaming processSummary of Spec.               *)
(* SpecRuns   runs of the streaming program side by side in one process,   *)
(*            each in a generateSummary call that uploads a file.          *)
(*                                                                         *)
(* Node runs one macrotask at a time and drains the microtask queue before *)
(* the next one: an action of this module is one macrotask (a stream event *)
(* or the completion of one external call) together with every             *)
(* continuation that runs up to the next external call.                    *)
(*                                                                         *)
(* The bulk query stream emits 'record' events, then 'end', or 'error' at  *)
(* any time before 'end'.  After pause() it emits only what was already    *)
(* dispatched (inflight), until resume() is called.                        *)
(***************************************************************************)
EXTENDS Integers, Sequences, FiniteSets, TLC

\* ---------------------------------------------------------------- bounds
\* Number of records the bulk query delivers at most.
MaxRecords == 3
\* Number of calendar entries (see Calendar) a record's ActivityDate ranges over.
MaxDates == 3
\* Events a paused stream may still deliver (already dispatched when pause() ran).
MaxInflight == 1
\* Sub-batch size.  The source sets 500 (src/index.js:1312); the model scales it.
BULK_QUERY_BATCH_SIZE == 2
\* Lengths of the error texts (error.message) an external call can fail with.
ShortErr == 20
LongErr == 1000
\* Entries of a lookup of existing records, and the record Ids they point to.
MaxLookup == 2
MaxRecordIds == 2
\* Calls of createTimileSummarySalesforceRecords with one period.
MaxCalls == 2
\* Runs side by side in one process, and the milliseconds their file names are
\* built in.
MaxRuns == 2
MaxClock == 2

\* ------------------------------------------------------------ calendar
MonthNames ==
  << "January", "February", "March", "April", "May", "June", "July",
     "August", "September", "October", "November", "December" >>

\* String.prototype.toLowerCase on the month names.
toLowerCase ==
  [ January |-> "january", February |-> "february", March |-> "march",
    April |-> "april", May |-> "may", June |-> "june", July |-> "july",
    August |-> "august", September |-> "september", October |-> "october",
    November |-> "november", December |-> "december" ]
    @@ [m \in {"Invalid Date"} |-> "invalid date"]

monthMap ==
  [ january |-> 0, february |-> 1, march |-> 2, april |-> 3, may |-> 4,
    june |-> 5, july |-> 6, august |-> 7, september |-> 8, october |-> 9,
    november |-> 10, december |-> 11 ]

\* The ActivityDate values of the model, ascending.  Date 0 stands for a missing
\* or unparseable ActivityDate.
Calendar ==
  << [year |-> 2024, monthIndex |-> 1], [year |-> 2024, monthIndex |-> 2],
     [year |-> 2024, monthIndex |-> 3], [year |-> 2025, monthIndex |-> 1],
     [year |-> 2025, monthIndex |-> 4], [year |-> 2025, monthIndex |-> 11] >>

Dates == 1..MaxDates

\* date.getUTCFullYear(): NaN (-1 here) for an invalid date.
getUTCFullYear(d) == IF d \in Dates THEN Calendar[d].year ELSE -1
\* date.toLocaleString('en-US', { month: 'long', timeZone: 'UTC' })
toLocaleMonth(d) ==
  IF d \in Dates THEN MonthNames[Calendar[d].monthIndex + 1] ELSE "Invalid Date"

\* A quarter function whose first range ends one month late.
getQuarterFromMonthIndexLate(monthIndex) ==
  IF monthIndex >= 0 /\ monthIndex <= 3 THEN "Q1"
  ELSE IF monthIndex >= 4 /\ monthIndex <= 5 THEN "Q2"
  ELSE IF monthIndex >= 6 /\ monthIndex <= 8 THEN "Q3"
  ELSE IF monthIndex >= 9 /\ monthIndex <= 11 THEN "Q4"
  ELSE "Unknown"

getQuarterFromMonthIndex(monthIndex) ==
  IF monthIndex >= 0 /\ monthIndex <= 2 THEN "Q1"
  ELSE IF monthIndex >= 3 /\ monthIndex <= 5 THEN "Q2"
  ELSE IF monthIndex >= 6 /\ monthIndex <= 8 THEN "Q3"
  ELSE IF monthIndex >= 9 /\ monthIndex <= 11 THEN "Q4"
  ELSE "Unknown"

ErrLens == {ShortErr, LongErr}

\* ------------------------------------------------------------ variables
VARIABLES
  \* the bulk query stream (jsforce), as the program can observe it
  input,                  \* ActivityDate of every record delivered so far
  flowing,                \* FALSE between pause() and resume()
  inflight,               \* events a paused stream can still deliver
  streamEnded,            \* 'end' was emitted
  streamErrored,          \* 'error' was emitted
  jobState,               \* bulkQueryJob.job?.state, "absent" without job handle
  \* the closure of processSummary
  recordCount, streamPaused, currentYear, currentMonth,
  currentMonthActivities, quarterlyInputs, overallStatus, failureMessages,
  \* control
  mpc,                    \* processSummary's position
  promise,                \* the stream-completion promise
  hpc, hrec,              \* the suspended 'record' handler and its record
  epc,                    \* the 'end' handler
  batch,                  \* the processAndSaveMonthBatch call of each caller
  qi, qn, q,              \* quarter loop: position, number of keys, current quarter
  \* observations
  batches,                \* every processAndSaveMonthBatch call
  gsCalls,                \* every generateSummary call
  saves,                  \* every createTimileSummarySalesforceRecords call that returned
  callbacks,              \* every sendCallbackResponse call
  posts,                  \* whether the POST of each settled callback succeeded
  \* the program that fetches all records before it summarizes (src/unnamed/part_000)
  groupedData,            \* what fetchRecords returned, in iteration order
  \* one generateSummary call, in any of the three programs
  gs,
  \* the route handler of POST /generatesummary
  req,                    \* the request, until the handler has dealt with it
  res,                    \* every HTTP response sent
  summaryRecordsMap,      \* the lookup of existing records that processSummary gets
  \* calls of createTimileSummarySalesforceRecords on their own
  persist,
  \* runs of the streaming program side by side in one process
  runs,                   \* the file-upload generateSummary call of each run
  tempFiles               \* the files in TEMP_FILE_DIR and their text

streamVars == <<input, flowing, inflight, streamEnded, streamErrored, jobState>>
closureVars ==
  <<recordCount, streamPaused, currentYear, currentMonth,
    currentMonthActivities, quarterlyInputs, overallStatus, failureMessages>>
controlVars == <<mpc, promise, hpc, hrec, epc, batch, qi, qn, q>>
obsVars == <<batches, gsCalls, saves, callbacks>>
requestVars == <<req, res, summaryRecordsMap, persist>>
runVars == <<runs, tempFiles>>
sideVars == <<groupedData, gs, requestVars, runVars>>
vars == <<streamVars, closureVars, controlVars, obsVars, posts, sideVars>>

\* Who awaits a month batch: the 'record' handler, the 'end' handler, or the month
\* loop of the fetching program.
Callers == {"record", "end", "loop"}
JobStates == {"absent", "Open", "Closed", "Aborted"}

NoBatch ==
  [pc |-> "none", id |-> 0, year |-> 0, month |-> "", activities |-> <<>>,
   assistant |-> FALSE, index |-> 0]
NoRecord == [Id |-> 0, ActivityDate |-> 0]
NoCall ==
  [variant |-> "none", count |-> 0, length |-> 0, pc |-> "none", inputMethod |-> "prompt",
   tempFilePath |-> FALSE, fileId |-> FALSE, attachments |-> 0, result |-> "none",
   run |-> "none", written |-> FALSE, uploaded |-> FALSE, unlinks |-> 0, dels |-> 0,
   message |-> [sent |-> FALSE, json |-> "none", instruction |-> FALSE,
                attachments |-> 0, inlineLength |-> 0]]
NoQuarter == [pc |-> "none", key |-> <<0, "">>, inputs |-> <<>>, assistant |-> FALSE,
              output |-> <<>>]

\* let summaryRecordsMap = {}: the lookup when the request has no summaryMap.  With a
\* summaryMap it is the array of { key, value } entries of the parsed object.
NoLookup == [isArray |-> FALSE, items |-> <<>>]
NoRequest ==
  [auth |-> "", missing |-> "", queryText |-> {}, summaryMap |-> "", monthJSON |-> "",
   qtrJSON |-> ""]
NoPersist == [category |-> "", year |-> 0, periodKey |-> "", calls |-> <<>>]

\* processSummary is called with the lookup of a request without summaryMap.
Called ==
  /\ mpc = "start"
  /\ req = NoRequest
  /\ res = <<>>
  /\ summaryRecordsMap = NoLookup
  /\ persist = NoPersist

\* The closure of a processSummary call that has not yet run.
Fresh ==
  /\ flowing = FALSE
  /\ inflight = 0
  /\ streamEnded = FALSE
  /\ streamErrored = FALSE
  /\ recordCount = 0
  /\ streamPaused = FALSE
  /\ currentYear = 0            \* null
  /\ currentMonth = ""          \* null
  /\ currentMonthActivities = <<>>
  /\ quarterlyInputs = <<>>
  /\ overallStatus = "Success"
  /\ failureMessages = <<>>
  /\ promise = "none"
  /\ hpc = "idle"
  /\ hrec = NoRecord
  /\ epc = "idle"
  /\ batch = [p \in Callers |-> NoBatch]
  /\ qi = 0
  /\ qn = 0
  /\ q = NoQuarter
  /\ batches = <<>>
  /\ gsCalls = <<>>
  /\ saves = <<>>
  /\ callbacks = <<>>
  /\ posts = <<>>
  /\ groupedData = <<>>
  /\ runs = <<>>
  /\ tempFiles = {}

\* The streaming program: nothing delivered yet; the job handle of the bulk query is
\* absent or in one of its states.
Init ==
  /\ input = <<>>
  /\ jobState \in JobStates
  /\ gs = NoCall
  /\ Called
  /\ Fresh

\* ------------------------------------------------------------- messages
\* A failure message is kept as [kind, year, label, errLen]: the text the code
\* builds from it is fixed by these four.
StrLen ==
  [ January |-> 7, February |-> 8, March |-> 5, April |-> 5, May |-> 3,
    June |-> 4, July |-> 4, August |-> 6, September |-> 9, October |-> 7,
    November |-> 8, December |-> 8 ]

\* A catch block that puts a fixed label where the month's name belongs.
MonthFailureUnnamed(year, month, errLen) ==
  [kind |-> "month", year |-> year, label |-> "January", errLen |-> errLen]

\* `Failed processing ${month} ${year}: ${monthError.message}`
MonthFailure(year, month, errLen) ==
  [kind |-> "month", year |-> year, label |-> month, errLen |-> errLen]
\* `Failed processing ${quarterKey}: ${quarterlyError.message}`
QuarterFailure(key, errLen) ==
  [kind |-> "quarter", year |-> key[1], label |-> key[2], errLen |-> errLen]
\* `Failed to transform/validate AI output for ${quarterKey}.`
TransformFailure(key) ==
  [kind |-> "transform", year |-> key[1], label |-> key[2], errLen |-> 0]
\* `Salesforce query stream error: ${err.message}`
StreamFailure(errLen) ==
  [kind |-> "stream", year |-> 0, label |-> "", errLen |-> errLen]

\* Offset of the period label inside one failure message, and the label's length.
LabelStart(m) == IF m.kind = "transform" THEN 43 ELSE IF m.kind = "stream" THEN 31 ELSE 18
LabelLen(m) ==
  IF m.kind = "month" THEN StrLen[m.label]
  ELSE IF m.kind = "stream" THEN 0 ELSE 7
MsgLen(m) ==
  IF m.kind = "month" THEN 18 + StrLen[m.label] + 1 + 4 + 2 + m.errLen
  ELSE IF m.kind = "quarter" THEN 18 + 7 + 2 + m.errLen
  ELSE IF m.kind = "transform" THEN 43 + 7 + 1
  ELSE 31 + m.errLen

RECURSIVE JoinLen(_)
\* failureMessages.join('; ').length
JoinLen(fm) ==
  IF Len(fm) = 0 THEN 0
  ELSE IF Len(fm) = 1 THEN MsgLen(fm[1])
  ELSE MsgLen(fm[1]) + 2 + JoinLen(Tail(fm))

\* The callback message.  For "Processing finished with issues: ..." the parts are
\* the failure messages joined by '; ' behind a 33 character prefix.
FinalMessage(status, fm) ==
  IF status = "Success"
  THEN [kind |-> "Summary Processed Successfully", parts |-> <<>>, length |-> 30]
  ELSE [kind |-> "Processing finished with issues", parts |-> fm,
        length |-> 33 + JoinLen(fm)]

\* finalMessage.length > 1000 ? finalMessage.substring(0, 997) + "..." : finalMessage
MessageLimit == 1000
MessageKept == 997
Truncated(msg) == msg.length > MessageLimit

\* The label of part i of the message is in the text that is sent.
LabelSent(msg, i) ==
  LET start == 33 + (IF i = 1 THEN 0 ELSE JoinLen(SubSeq(msg.parts, 1, i - 1)) + 2)
      stop  == start + LabelStart(msg.parts[i]) + LabelLen(msg.parts[i])
  IN  ~Truncated(msg) \/ stop <= MessageKept

\* A payload whose status field carries the run's result.
CallbackBodyStatus(site, processResult, message) ==
  [site |-> site, status |-> processResult, processResult |-> processResult,
   message |-> message]

CallbackBody(site, processResult, message) ==
  [site |-> site, status |-> "Completed", processResult |-> processResult,
   message |-> message]

\* --------------------------------------------------------- quarter loop
\* A quarter loop that a failure ends: once the status is Failed no further key is
\* taken up.
NextQuarterUntilFailure(from, n, status, fm, qin) ==
  LET todo == IF status = "Failed"
              THEN {}
              ELSE {i \in (from + 1)..n : Len(qin[i].monthSummaries) > 0}
  IN  IF todo # {}
      THEN LET i == CHOOSE k \in todo : \A j \in todo : k <= j
           IN  /\ qi' = i
               /\ q' = [pc |-> "create", key |-> qin[i].key,
                        inputs |-> qin[i].monthSummaries, assistant |-> FALSE,
                        output |-> <<>>]
               /\ mpc' = "quarters"
               /\ callbacks' = callbacks
      ELSE /\ qi' = n
           /\ q' = NoQuarter
           /\ mpc' = "cbNormal"
           /\ callbacks' =
                Append(callbacks, CallbackBody("normal", status, FinalMessage(status, fm)))

\* for (const quarterKey in quarterlyInputs): the keys are those present when the
\* loop starts, in insertion order.  An entry without monthly summaries is skipped.
\* The loop body runs to its first await (assistants.create); past the last key
\* processSummary calls sendCallbackResponse, whose POST is then in flight.
NextQuarter(from, n, status, fm, qin) ==
  LET todo == {i \in (from + 1)..n : Len(qin[i].monthSummaries) > 0}
  IN  IF todo # {}
      THEN LET i == CHOOSE k \in todo : \A j \in todo : k <= j
           IN  /\ qi' = i
               /\ q' = [pc |-> "create", key |-> qin[i].key,
                        inputs |-> qin[i].monthSummaries, assistant |-> FALSE,
                        output |-> <<>>]
               /\ mpc' = "quarters"
               /\ callbacks' = callbacks
      ELSE /\ qi' = n
           /\ q' = NoQuarter
           /\ mpc' = "cbNormal"
           /\ callbacks' =
                Append(callbacks, CallbackBody("normal", status, FinalMessage(status, fm)))

\* The stream promise resolved: processSummary goes on to the quarter loop.
EnterQuarters(status, fm, qin) ==
  /\ qn' = Len(qin)
  /\ NextQuarter(0, Len(qin), status, fm, qin)

\* ------------------------------- createTimileSummarySalesforceRecords
\* monthValue.substring(0, 1)
substring1 ==
  [ January |-> "J", February |-> "F", March |-> "M", April |-> "A",
    May |-> "M", June |-> "J", July |-> "J", August |-> "A",
    September |-> "S", October |-> "O", November |-> "N", December |-> "D" ]

\* monthValue.substring(0, 3)
substring3 ==
  [ January |-> "Jan", February |-> "Feb", March |-> "Mar", April |-> "Apr",
    May |-> "May", June |-> "Jun", July |-> "Jul", August |-> "Aug",
    September |-> "Sep", October |-> "Oct", November |-> "Nov", December |-> "Dec" ]

\* A key of the lookup is the text `${label} ${year}` in some spelling: as the code
\* builds it ("Feb 2024", "Q1 2024"), or in upper case.
Spellings == {"as built", "upper"}
\* key.toLowerCase(): the spelling is gone, label and year stay.
keyToLowerCase(key) == [label |-> key.label, year |-> key.year]

\* (summaryCategory === 'Quarterly') ? `${fyQuarterValue} ${year}` : `${shortMonth} ${year}`
summaryMapKey(summaryCategory, year, periodKey) ==
  [label |-> IF summaryCategory = "Quarterly" THEN periodKey ELSE substring3[periodKey],
   year |-> year, spelling |-> "as built"]

\* A getValueByKey that compares the keys as they are spelled.
getValueByKeyExact(recordsArray, searchKey) ==
  IF ~recordsArray.isArray
  THEN 0
  ELSE LET found == {i \in 1..Len(recordsArray.items) :
                       recordsArray.items[i].key = searchKey}
       IN  IF found = {}
           THEN 0
           ELSE recordsArray.items[CHOOSE i \in found : \A j \in found : i <= j].value

\* getValueByKey: the value of the first entry whose key is searchKey, whatever the
\* case; null (0) when there is none or recordsArray is not an array.
getValueByKey(recordsArray, searchKey) ==
  IF ~recordsArray.isArray
  THEN 0
  ELSE LET found == {i \in 1..Len(recordsArray.items) :
                       keyToLowerCase(recordsArray.items[i].key) = keyToLowerCase(searchKey)}
       IN  IF found = {}
           THEN 0
           ELSE recordsArray.items[CHOOSE i \in found : \A j \in found : i <= j].value

\* What one call queues for its one (year, periodKey) entry: an update of the record
\* found in the lookup, or else a create.  parentId, category and year are never
\* empty, so the entry is never skipped.
createTimileSummarySalesforceRecords(summaryCategory, year, periodKey, recordsMap) ==
  LET existingRecordId ==
        getValueByKey(recordsMap, summaryMapKey(summaryCategory, year, periodKey))
  IN  IF existingRecordId # 0
      THEN [op |-> "update", Id |-> existingRecordId]
      ELSE [op |-> "create", Id |-> 0]

\* ------------------------------------------- processAndSaveMonthBatch
\* The call runs synchronously to its first await, openai.beta.assistants.create;
\* the two early returns leave nothing to await.
NewBatch(year, month, activities, index) ==
  [pc |-> IF Len(activities) = 0 \/ toLowerCase[month] \notin DOMAIN monthMap
          THEN "skip" ELSE "create",
   id |-> Len(batches) + 1, year |-> year, month |-> month,
   activities |-> activities, assistant |-> FALSE, index |-> index]

\* One entry of the record of calls: result is "running" until the call's try block
\* ends, then "saved" or the step that threw (with the index of its failure message).
BatchCall(caller, year, month, activities) ==
  [by |-> caller, year |-> year, month |-> month, activities |-> activities,
   result |-> "running", failure |-> 0]
BatchResult(bs, id, result, failure) ==
  [bs EXCEPT ![id].result = result, ![id].failure = failure]

\* if (bulkQueryJob && bulkQueryJob.job && state !== 'Closed' && state !== 'Aborted')
JobValid == jobState # "absent" /\ jobState # "Closed" /\ jobState # "Aborted"

\* currentMonthActivities.push(...) and the sub-batch check behind it.  fl and infl
\* are the stream's flow state when the push runs.
\* A sub-batch test that lets the list grow one record beyond the size.
SubBatchOverfull(list) == Len(list) > BULK_QUERY_BATCH_SIZE

\* if (currentMonthActivities.length >= BULK_QUERY_BATCH_SIZE)
SubBatchFull(list) == Len(list) >= BULK_QUERY_BATCH_SIZE

PushRecord(year, month, activities, rec, fl, infl, bs) ==
  LET list == Append(activities, rec)
  IN  /\ currentYear' = year
      /\ currentMonth' = month
      /\ currentMonthActivities' = list
      /\ IF SubBatchFull(list)
         THEN /\ streamPaused' = TRUE
              /\ flowing' = FALSE
              /\ inflight' \in (IF fl THEN 0..MaxInflight ELSE {infl})
              /\ batch' = [batch EXCEPT !["record"] = NewBatch(year, month, list, 0)]
              /\ batches' = Append(bs, BatchCall("record", year, month, list))
              /\ hpc' = "subFlush"
              /\ hrec' = rec
         ELSE /\ streamPaused' = FALSE
              /\ flowing' = fl
              /\ inflight' = infl
              /\ batch' = [batch EXCEPT !["record"] = NoBatch]
              /\ batches' = bs
              /\ hpc' = "idle"
              /\ hrec' = NoRecord

\* The 'record' handler behind `await processAndSaveMonthBatch(...)`.
ReturnToRecord(bs) ==
  LET fl   == IF JobValid THEN TRUE ELSE flowing
      infl == IF JobValid THEN 0 ELSE inflight
  IN  /\ IF hpc = "monthFlush"
         THEN PushRecord(getUTCFullYear(hrec.ActivityDate),
                         toLocaleMonth(hrec.ActivityDate), <<>>, hrec, fl, infl, bs)
         ELSE /\ currentMonthActivities' = <<>>
              /\ streamPaused' = FALSE
              /\ flowing' = fl
              /\ inflight' = infl
              /\ batch' = [batch EXCEPT !["record"] = NoBatch]
              /\ hpc' = "idle"
              /\ hrec' = NoRecord
              /\ batches' = bs
              /\ UNCHANGED <<currentYear, currentMonth>>
      /\ UNCHANGED <<mpc, promise, epc, qi, qn, q, callbacks>>

\* The 'end' handler behind its await: clears the list and resolves the promise,
\* which lets processSummary run on unless the promise was already settled.
ReturnToEnd(status, fm, bs) ==
  /\ currentMonthActivities' = <<>>
  /\ epc' = "done"
  /\ batch' = [batch EXCEPT !["end"] = NoBatch]
  /\ IF promise = "pending"
     THEN /\ promise' = "resolved"
          /\ EnterQuarters(status, fm, quarterlyInputs)
     ELSE UNCHANGED <<promise, mpc, qi, qn, q, callbacks>>
  /\ batches' = bs
  /\ UNCHANGED <<streamPaused, flowing, inflight, currentYear, currentMonth,
                 hpc, hrec>>

\* groupedData = null, the statement behind the month loop of the fetching program:
\* groupedData is a const binding, so the assignment is a TypeError.
\* Its message, "Assignment to constant variable.", has 32 characters.
AssignmentToConstantThrows == TRUE

\* for (const year in groupedData) ... for (const month in monthObj): the loop body
\* runs to its first await (assistants.create); behind the last month comes the
\* release of groupedData, then the quarter loop.
MonthLoop(from, gd, status, fm, bs) ==
  IF from < Len(gd)
  THEN LET g == gd[from + 1]
       IN  /\ batch' = [batch EXCEPT !["loop"] =
                  NewBatch(g.year, g.month, g.activities, from + 1)]
           /\ batches' = Append(bs, BatchCall("loop", g.year, g.month, g.activities))
           /\ mpc' = "months"
           /\ UNCHANGED <<qi, qn, q, callbacks>>
  ELSE /\ batch' = [batch EXCEPT !["loop"] = NoBatch]
       /\ batches' = bs
       /\ IF AssignmentToConstantThrows
          THEN /\ mpc' = "cbCatch"
               /\ callbacks' = Append(callbacks,
                    CallbackBody("catch", "Failed",
                                 [kind |-> "Critical processing error", parts |-> <<>>,
                                  length |-> 27 + 32]))
               /\ UNCHANGED <<qi, qn, q>>
          ELSE EnterQuarters(status, fm, quarterlyInputs)

\* The month loop behind the try/catch/finally of one month.
ReturnToLoop(status, fm, bs) ==
  /\ MonthLoop(batch["loop"].index, groupedData, status, fm, bs)
  /\ UNCHANGED <<streamPaused, flowing, inflight, currentYear, currentMonth,
                 currentMonthActivities, promise, hpc, hrec, epc>>

\* processAndSaveMonthBatch returns to its caller.
Return(p, status, fm, bs) ==
  /\ overallStatus' = status
  /\ failureMessages' = fm
  /\ IF p = "record" THEN ReturnToRecord(bs)
     ELSE IF p = "end" THEN ReturnToEnd(status, fm, bs)
     ELSE ReturnToLoop(status, fm, bs)
  /\ UNCHANGED <<input, streamEnded, streamErrored, jobState, recordCount,
                 quarterlyInputs, gsCalls, saves>>

\* quarterlyInputs[quarterKey].monthSummaries.push(monthlyAiOutput)
HasKey(qin, key) == \E i \in 1..Len(qin) : qin[i].key = key
KeyIndex(qin, key) == CHOOSE i \in 1..Len(qin) : qin[i].key = key
PushSummary(qin, year, quarter, out) ==
  IF HasKey(qin, <<year, quarter>>)
  THEN [qin EXCEPT ![KeyIndex(qin, <<year, quarter>>)].monthSummaries = Append(@, out)]
  ELSE Append(qin, [key |-> <<year, quarter>>, year |-> year, quarter |-> quarter,
                    monthSummaries |-> <<out>>, released |-> FALSE])

\* openai.beta.assistants.create returns or throws.
BatchCreate(p) ==
  /\ batch[p].pc \in {"create", "skip"}
  /\ IF batch[p].pc = "skip"
     THEN Return(p, overallStatus, failureMessages, batches)
     ELSE \E ok \in BOOLEAN, e \in ErrLens :
            IF ok
            THEN /\ e = ShortErr
                 /\ batch' = [batch EXCEPT ![p].pc = "generate", ![p].assistant = TRUE]
                 /\ gsCalls' = Append(gsCalls,
                       [category |-> "Monthly", batch |-> batch[p].id,
                        activities |-> batch[p].activities, inputs |-> <<>>,
                        key |-> <<batch[p].year, batch[p].month>>])
                 /\ UNCHANGED <<streamVars, closureVars, mpc, promise, hpc, hrec, epc,
                                qi, qn, q, batches, saves, callbacks>>
            ELSE Return(p, "Failed",
                        Append(failureMessages,
                               MonthFailure(batch[p].year, batch[p].month, e)),
                        BatchResult(batches, batch[p].id, "create failed",
                                    Len(failureMessages) + 1))
  /\ UNCHANGED <<posts, sideVars>>

\* generateSummary returns the parsed function arguments or throws.
BatchGenerate(p) ==
  /\ batch[p].pc = "generate"
  /\ \E ok \in BOOLEAN, e \in ErrLens :
       /\ IF ok
          THEN /\ e = ShortErr
               /\ batch' = [batch EXCEPT ![p].pc = "save"]
               /\ UNCHANGED <<overallStatus, failureMessages, batches>>
          ELSE /\ batch' = [batch EXCEPT ![p].pc = "delete"]
               /\ overallStatus' = "Failed"
               /\ failureMessages' =
                    Append(failureMessages, MonthFailure(batch[p].year, batch[p].month, e))
               /\ batches' = BatchResult(batches, batch[p].id, "generate failed",
                                         Len(failureMessages) + 1)
  /\ UNCHANGED <<streamVars, recordCount, streamPaused, currentYear, currentMonth,
                 currentMonthActivities, quarterlyInputs, mpc, promise, hpc, hrec,
                 epc, qi, qn, q, gsCalls, saves, callbacks>>
  /\ UNCHANGED <<posts, sideVars>>

\* createTimileSummarySalesforceRecords returns or throws; behind it the AI output is
\* stored for the quarter.  Pushing to an entry whose monthSummaries the quarter loop
\* already set to null is a TypeError, caught like any other.
BatchSave(p) ==
  /\ batch[p].pc = "save"
  /\ LET b == batch[p]
         monthIndex == monthMap[toLowerCase[b.month]]
         quarter == getQuarterFromMonthIndex(monthIndex)
         out == [batch |-> b.id]
         gone == /\ HasKey(quarterlyInputs, <<b.year, quarter>>)
                 /\ quarterlyInputs[KeyIndex(quarterlyInputs, <<b.year, quarter>>)].released
     IN  \E ok \in BOOLEAN, e \in ErrLens :
           /\ batch' = [batch EXCEPT ![p].pc = "delete"]
           /\ IF ok
              THEN /\ e = ShortErr
                   /\ saves' = Append(saves,
                        [category |-> "Monthly", year |-> b.year, period |-> b.month,
                         count |-> Len(b.activities), output |-> out,
                         queued |-> createTimileSummarySalesforceRecords(
                                      "Monthly", b.year, b.month, summaryRecordsMap)])
                   /\ IF gone
                      THEN /\ overallStatus' = "Failed"
                           /\ failureMessages' =
                                Append(failureMessages, MonthFailure(b.year, b.month, 47))
                           /\ batches' = BatchResult(batches, b.id, "push failed",
                                                     Len(failureMessages) + 1)
                           /\ UNCHANGED quarterlyInputs
                      ELSE /\ quarterlyInputs' =
                                PushSummary(quarterlyInputs, b.year, quarter, out)
                           /\ batches' = BatchResult(batches, b.id, "saved", 0)
                           /\ UNCHANGED <<overallStatus, failureMessages>>
              ELSE /\ overallStatus' = "Failed"
                   /\ failureMessages' =
                        Append(failureMessages, MonthFailure(b.year, b.month, e))
                   /\ batches' = BatchResult(batches, b.id, "save failed",
                                             Len(failureMessages) + 1)
                   /\ UNCHANGED <<quarterlyInputs, saves>>
  /\ UNCHANGED <<streamVars, recordCount, streamPaused, currentYear, currentMonth,
                 currentMonthActivities, mpc, promise, hpc, hrec, epc, qi, qn, q,
                 gsCalls, callbacks>>
  /\ UNCHANGED <<posts, sideVars>>

\* finally: openai.beta.assistants.del returns or throws (logged only), then the
\* call returns.
BatchDelete(p) ==
  /\ batch[p].pc = "delete"
  /\ Return(p, overallStatus, failureMessages, batches)
  /\ UNCHANGED <<posts, sideVars>>

\* ------------------------------------------------------- stream events
Started == mpc # "start" /\ mpc # "rejected" /\ promise # "none"
CanEmit == Started /\ ~streamEnded /\ ~streamErrored /\ (flowing \/ inflight > 0)
LastDate ==
  LET seen == {input[i] : i \in 1..Len(input)}
  IN  CHOOSE d \in seen \cup {0} : \A x \in seen : x <= d

\* A handler that skips a record only while the stream is paused.
SkippedWhilePaused(paused, d) == paused

\* if (!streamPaused) { if (!record.ActivityDate) return; ...
\* if (isNaN(date.getTime())) return; ... }: the records the handler does nothing with.
Skipped(paused, d) == paused \/ d = 0

\* bulkQueryJob.on('record', async (record) => ...), to its first await or its end.
\* The query orders by ActivityDate ascending; d = 0 is a record without a usable date.
OnRecord(d) ==
  /\ CanEmit
  /\ Len(input) < MaxRecords
  /\ d = 0 \/ d >= LastDate
  /\ input' = Append(input, d)
  /\ recordCount' = recordCount + 1
  /\ LET rec  == [Id |-> Len(input) + 1, ActivityDate |-> d]
         infl == IF flowing THEN 0 ELSE inflight - 1
     IN  IF Skipped(streamPaused, d)
         THEN /\ inflight' = infl
              /\ UNCHANGED <<flowing, streamPaused, currentYear, currentMonth,
                             currentMonthActivities, hpc, hrec, batch, batches>>
         ELSE LET year  == getUTCFullYear(d)
                  month == toLocaleMonth(d)
              IN  IF year # currentYear \/ month # currentMonth
                  THEN IF Len(currentMonthActivities) > 0
                       THEN /\ streamPaused' = TRUE
                            /\ flowing' = FALSE
                            /\ inflight' \in (IF flowing THEN 0..MaxInflight ELSE {infl})
                            /\ batch' = [batch EXCEPT !["record"] =
                                 NewBatch(currentYear, currentMonth, currentMonthActivities, 0)]
                            /\ batches' = Append(batches,
                                 BatchCall("record", currentYear, currentMonth,
                                           currentMonthActivities))
                            /\ hpc' = "monthFlush"
                            /\ hrec' = rec
                            /\ UNCHANGED <<currentYear, currentMonth, currentMonthActivities>>
                       ELSE PushRecord(year, month, currentMonthActivities, rec,
                                       flowing, infl, batches)
                  ELSE PushRecord(year, month, currentMonthActivities, rec, flowing,
                                  infl, batches)
  /\ UNCHANGED <<streamEnded, streamErrored, jobState, quarterlyInputs, overallStatus,
                 failureMessages, mpc, promise, epc, qi, qn, q, gsCalls, saves,
                 callbacks>>
  /\ UNCHANGED <<posts, sideVars>>

\* bulkQueryJob.on('end', async () => ...), to its await or to resolve().
OnEnd ==
  /\ CanEmit
  /\ streamEnded' = TRUE
  /\ inflight' = IF flowing THEN 0 ELSE inflight - 1
  /\ IF Len(currentMonthActivities) > 0
     THEN /\ batch' = [batch EXCEPT !["end"] =
               NewBatch(currentYear, currentMonth, currentMonthActivities, 0)]
          /\ batches' = Append(batches,
               BatchCall("end", currentYear, currentMonth, currentMonthActivities))
          /\ epc' = "batch"
          /\ UNCHANGED <<promise, mpc, qi, qn, q, callbacks>>
     ELSE /\ epc' = "done"
          /\ promise' = "resolved"
          /\ EnterQuarters(overallStatus, failureMessages, quarterlyInputs)
          /\ UNCHANGED <<batch, batches>>
  /\ UNCHANGED <<input, flowing, streamErrored, jobState, closureVars, hpc, hrec,
                 gsCalls, saves>>
  /\ UNCHANGED <<posts, sideVars>>

\* An 'error' handler that records the failure and resolves the promise.
OnErrorResolves(e) ==
  /\ Started /\ ~streamEnded /\ ~streamErrored
  /\ streamErrored' = TRUE
  /\ overallStatus' = "Failed"
  /\ failureMessages' = Append(failureMessages, StreamFailure(e))
  /\ promise' = "resolved"
  /\ EnterQuarters("Failed", Append(failureMessages, StreamFailure(e)), quarterlyInputs)
  /\ UNCHANGED <<input, flowing, inflight, streamEnded, jobState, recordCount,
                 streamPaused, currentYear, currentMonth, currentMonthActivities,
                 quarterlyInputs, hpc, hrec, epc, batch, batches, gsCalls, saves>>
  /\ UNCHANGED <<posts, sideVars>>

\* bulkQueryJob.on('error', ...): reject(err) takes processSummary to its catch block,
\* which calls sendCallbackResponse.
OnError(e) ==
  /\ Started /\ ~streamEnded /\ ~streamErrored
  /\ streamErrored' = TRUE
  /\ overallStatus' = "Failed"
  /\ failureMessages' = Append(failureMessages, StreamFailure(e))
  /\ promise' = "rejected"
  /\ mpc' = "cbCatch"
  /\ callbacks' = Append(callbacks,
       CallbackBody("catch", "Failed",
                    [kind |-> "Critical processing error", parts |-> <<>>,
                     length |-> 27 + e]))
  /\ UNCHANGED <<input, flowing, inflight, streamEnded, jobState, recordCount,
                 streamPaused, currentYear, currentMonth, currentMonthActivities,
                 quarterlyInputs, hpc, hrec, epc, batch, qi, qn, q, batches, gsCalls,
                 saves>>
  /\ UNCHANGED <<posts, sideVars>>

\* ------------------------------------------------------- quarter phase
\* What the quarterly function call can return for the quarter asked for: the
\* quarter itself, another quarter, or an object without the required fields.
OtherQuarter(quarter) == IF quarter = "Q4" THEN "Q1" ELSE "Q4"
QuarterOutputs(key) ==
  { [year |-> key[1], quarter |-> key[2], complete |-> TRUE],
    [year |-> key[1], quarter |-> OtherQuarter(key[2]), complete |-> TRUE],
    [year |-> key[1] + 1, quarter |-> key[2], complete |-> TRUE],
    [year |-> key[1], quarter |-> key[2], complete |-> FALSE] }

\* transformQuarterlyStructure: {} unless year, quarter, summary, activityCount and
\* startdate are all there, else { [year]: { [quarter]: {...} } }.
transformQuarterlyStructure(quarterlyAiOutput) ==
  IF ~quarterlyAiOutput.complete
  THEN <<>>
  ELSE << [year |-> quarterlyAiOutput.year, quarter |-> quarterlyAiOutput.quarter,
           summaryJson |-> quarterlyAiOutput] >>

\* A validation that looks for the year of the quarterKey only.
TransformValidYearOnly(transformedQuarter, year, quarter) ==
  /\ Len(transformedQuarter) > 0
  /\ transformedQuarter[1].year = year

\* transformedQuarter && transformedQuarter[year] && transformedQuarter[year][quarter]
TransformValid(transformedQuarter, year, quarter) ==
  /\ Len(transformedQuarter) > 0
  /\ transformedQuarter[1].year = year
  /\ transformedQuarter[1].quarter = quarter

\* A downgrade that does not look at the status it replaces.
PartialSuccessAlways(status) == "Partial Success"

\* A validation failure that records its message and leaves the status alone.
StatusKept(status) == status

\* if (overallStatus !== "Failed") { overallStatus = "Partial Success"; }
PartialSuccessUnlessFailed(status) ==
  IF status # "Failed" THEN "Partial Success" ELSE status

\* if (quarterlyInputs[quarterKey]) quarterlyInputs[quarterKey].monthSummaries = null
Release(qin, i) == [qin EXCEPT ![i].monthSummaries = <<>>, ![i].released = TRUE]

\* openai.beta.assistants.create for the quarter returns or throws.
QuarterCreate ==
  /\ mpc = "quarters" /\ q.pc = "create"
  /\ \E ok \in BOOLEAN, e \in ErrLens :
       IF ok
       THEN /\ e = ShortErr
            /\ q' = [q EXCEPT !.pc = "generate", !.assistant = TRUE]
            /\ gsCalls' = Append(gsCalls,
                 [category |-> "Quarterly", batch |-> 0, activities |-> <<>>,
                  inputs |-> q.inputs, key |-> q.key])
            /\ UNCHANGED <<quarterlyInputs, overallStatus, failureMessages, mpc, qi, qn,
                           callbacks>>
       ELSE LET fm == Append(failureMessages, QuarterFailure(q.key, e))
            IN  /\ overallStatus' = "Failed"
                /\ failureMessages' = fm
                /\ quarterlyInputs' = Release(quarterlyInputs, qi)
                /\ qn' = qn
                /\ NextQuarter(qi, qn, "Failed", fm, Release(quarterlyInputs, qi))
                /\ UNCHANGED gsCalls
  /\ UNCHANGED <<streamVars, recordCount, streamPaused, currentYear, currentMonth,
                 currentMonthActivities, promise, hpc, hrec, epc, batch, batches, saves>>
  /\ UNCHANGED <<posts, sideVars>>

\* generateSummary(null, ...) returns or throws; a returned output is transformed and
\* validated, and the quarterly save is started when it is valid.
QuarterGenerate ==
  /\ mpc = "quarters" /\ q.pc = "generate"
  /\ \/ \E out \in QuarterOutputs(q.key) :
          IF TransformValid(transformQuarterlyStructure(out), q.key[1], q.key[2])
          THEN /\ q' = [q EXCEPT !.pc = "save", !.output = transformQuarterlyStructure(out)]
               /\ UNCHANGED <<overallStatus, failureMessages>>
          ELSE /\ q' = [q EXCEPT !.pc = "delete"]
               /\ overallStatus' = PartialSuccessUnlessFailed(overallStatus)
               /\ failureMessages' = Append(failureMessages, TransformFailure(q.key))
     \/ \E e \in ErrLens :
          /\ q' = [q EXCEPT !.pc = "delete"]
          /\ overallStatus' = "Failed"
          /\ failureMessages' = Append(failureMessages, QuarterFailure(q.key, e))
  /\ UNCHANGED <<streamVars, recordCount, streamPaused, currentYear, currentMonth,
                 currentMonthActivities, quarterlyInputs, mpc, promise, hpc, hrec, epc,
                 batch, qi, qn, obsVars>>
  /\ UNCHANGED <<posts, sideVars>>

\* createTimileSummarySalesforceRecords(..., 'Quarterly', ...) returns or throws.
QuarterSave ==
  /\ mpc = "quarters" /\ q.pc = "save"
  /\ \E ok \in BOOLEAN, e \in ErrLens :
       /\ q' = [q EXCEPT !.pc = "delete"]
       /\ IF ok
          THEN /\ e = ShortErr
               /\ saves' = Append(saves,
                    [category |-> "Quarterly", year |-> q.key[1], period |-> q.key[2],
                     count |-> 0, output |-> q.output[1].summaryJson,
                     queued |-> createTimileSummarySalesforceRecords(
                                  "Quarterly", q.key[1], q.key[2], summaryRecordsMap)])
               /\ UNCHANGED <<overallStatus, failureMessages>>
          ELSE /\ overallStatus' = "Failed"
               /\ failureMessages' = Append(failureMessages, QuarterFailure(q.key, e))
               /\ UNCHANGED saves
  /\ UNCHANGED <<streamVars, recordCount, streamPaused, currentYear, currentMonth,
                 currentMonthActivities, quarterlyInputs, mpc, promise, hpc, hrec, epc,
                 batch, qi, qn, batches, gsCalls, callbacks>>
  /\ UNCHANGED <<posts, sideVars>>

\* finally: the assistant is deleted, the quarter's inputs are released, and the loop
\* goes on to the next key or to the final callback.
QuarterDelete ==
  /\ mpc = "quarters" /\ q.pc = "delete"
  /\ quarterlyInputs' = Release(quarterlyInputs, qi)
  /\ qn' = qn
  /\ NextQuarter(qi, qn, overallStatus, failureMessages, Release(quarterlyInputs, qi))
  /\ UNCHANGED <<streamVars, recordCount, streamPaused, currentYear, currentMonth,
                 currentMonthActivities, overallStatus, failureMessages, promise, hpc,
                 hrec, epc, batch, batches, gsCalls, saves>>
  /\ UNCHANGED <<posts, sideVars>>

\* ------------------------------------------------------------ callback
\* A sendCallbackResponse without its try/catch: a failed POST is thrown on.
sendCallbackResponseRethrows(postOk) == ~postOk

\* sendCallbackResponse: try { await axios.post(...) } catch (error) { log }.
\* Nothing is rethrown, whatever the POST does.
sendCallbackResponseThrows(postOk) == FALSE

\* The POST of the callback in flight settles.  A callback that threw would take the
\* normal path to processSummary's catch block (a second callback) and the catch
\* block's own callback to the route handler's .catch guard.
CallbackDone ==
  /\ mpc \in {"cbNormal", "cbCatch", "cbOuter"}
  /\ \E postOk \in BOOLEAN :
       /\ posts' = Append(posts, postOk)
       /\ IF ~sendCallbackResponseThrows(postOk) \/ mpc = "cbOuter"
          THEN mpc' = "done" /\ UNCHANGED callbacks
          ELSE IF mpc = "cbNormal"
               THEN /\ mpc' = "cbCatch"
                    /\ callbacks' = Append(callbacks,
                         CallbackBody("catch", "Failed",
                                      [kind |-> "Critical processing error",
                                       parts |-> <<>>, length |-> 27 + ShortErr]))
               ELSE mpc' = "rejected" /\ UNCHANGED callbacks
  /\ UNCHANGED <<streamVars, closureVars, promise, hpc, hrec, epc, batch, qi, qn, q,
                 batches, gsCalls, saves>>
  /\ UNCHANGED sideVars

\* processSummary(...).catch(async (error) => { await sendCallbackResponse(...) })
OuterCatch ==
  /\ mpc = "rejected"
  /\ mpc' = "cbOuter"
  /\ callbacks' = Append(callbacks,
       CallbackBody("outer", "Failed",
                    [kind |-> "Unhandled processing setup error", parts |-> <<>>,
                     length |-> 34 + ShortErr]))
  /\ UNCHANGED <<streamVars, closureVars, promise, hpc, hrec, epc, batch, qi, qn, q,
                 batches, gsCalls, saves>>
  /\ UNCHANGED <<posts, sideVars>>

\* --------------------------------------------------------------- start
\* new jsforce.Connection(...) stands before the try block: if it throws,
\* processSummary rejects.
SetupThrows ==
  /\ mpc = "start"
  /\ mpc' = "rejected"
  /\ UNCHANGED <<streamVars, closureVars, promise, hpc, hrec, epc, batch, qi, qn, q,
                 obsVars>>
  /\ UNCHANGED <<posts, sideVars>>

\* conn.bulk.query(queryText) throws inside the try block.
QueryThrows ==
  /\ mpc = "start"
  /\ \E e \in ErrLens :
       /\ mpc' = "cbCatch"
       /\ callbacks' = Append(callbacks,
            CallbackBody("catch", "Failed",
                         [kind |-> "Critical processing error", parts |-> <<>>,
                          length |-> 27 + e]))
  /\ UNCHANGED <<streamVars, closureVars, promise, hpc, hrec, epc, batch, qi, qn, q,
                 batches, gsCalls, saves>>
  /\ UNCHANGED <<posts, sideVars>>

\* The query stream is created, the handlers are attached, and processSummary awaits
\* the stream promise.
StartStream ==
  /\ mpc = "start"
  /\ mpc' = "stream"
  /\ promise' = "pending"
  /\ flowing' = TRUE
  /\ UNCHANGED <<input, inflight, streamEnded, streamErrored, jobState, closureVars,
                 hpc, hrec, epc, batch, qi, qn, q, obsVars>>
  /\ UNCHANGED <<posts, sideVars>>

\* ------------------------------------------- the fetching program
\* groupRecordsByMonthYear: records without a usable ActivityDate are left out; the
\* others go to the entry of their year and month, a new entry behind the others.
forEachActivity(grouped, rec) ==
  IF rec.ActivityDate = 0
  THEN grouped
  ELSE LET year  == getUTCFullYear(rec.ActivityDate)
           month == toLocaleMonth(rec.ActivityDate)
           found == {i \in 1..Len(grouped) :
                       grouped[i].year = year /\ grouped[i].month = month}
       IN  IF found # {}
           THEN [grouped EXCEPT ![CHOOSE i \in found : TRUE].activities = Append(@, rec)]
           ELSE Append(grouped, [year |-> year, month |-> month, activities |-> <<rec>>])

RECURSIVE GroupFrom(_, _, _)
GroupFrom(grouped, records, i) ==
  IF i > Len(records)
  THEN grouped
  ELSE GroupFrom(forEachActivity(grouped, [Id |-> i, ActivityDate |-> records[i]]),
                 records, i + 1)

\* for...in visits the year keys in ascending numeric order, whatever the order in
\* which the years came in; the months of a year keep their order.
RECURSIVE YearOrder(_, _)
YearOrder(grouped, years) ==
  IF years = {}
  THEN <<>>
  ELSE LET y == CHOOSE a \in years : \A b \in years : a <= b
           OfYear(g) == g.year = y
       IN  SelectSeq(grouped, OfYear) \o YearOrder(grouped, years \ {y})

groupRecordsByMonthYear(records) ==
  LET grouped == GroupFrom(<<>>, records, 1)
  IN  YearOrder(grouped, {grouped[i].year : i \in 1..Len(grouped)})

\* What the SOQL query can return: up to MaxRecords records in any order.
QueryResults == UNION {[1..n -> {0} \cup Dates] : n \in 0..MaxRecords}

FetchInit ==
  /\ input \in QueryResults
  /\ jobState = "absent"
  /\ gs = NoCall
  /\ Called
  /\ Fresh

\* const groupedData = await fetchRecords(conn, queryText): it returns the grouped
\* records, and the month loop starts, or it throws into the catch block.
FetchRecords ==
  /\ mpc = "start"
  /\ \E ok \in BOOLEAN, e \in ErrLens :
       IF ok
       THEN /\ e = ShortErr
            /\ groupedData' = groupRecordsByMonthYear(input)
            /\ MonthLoop(0, groupRecordsByMonthYear(input), overallStatus,
                         failureMessages, batches)
       ELSE /\ mpc' = "cbCatch"
            /\ callbacks' = Append(callbacks,
                 CallbackBody("catch", "Failed",
                              [kind |-> "Critical processing error", parts |-> <<>>,
                               length |-> 27 + e]))
            /\ UNCHANGED <<groupedData, batch, batches, qi, qn, q>>
  /\ UNCHANGED <<streamVars, closureVars, promise, hpc, hrec, epc, gsCalls, saves,
                 posts, gs, requestVars, runVars>>

FetchNext ==
  \/ FetchRecords
  \/ \E p \in Callers : BatchCreate(p)
  \/ \E p \in Callers : BatchGenerate(p)
  \/ \E p \in Callers : BatchSave(p)
  \/ \E p \in Callers : BatchDelete(p)
  \/ CallbackDone

SpecFetch == FetchInit /\ [][FetchNext]_vars

\* ------------------------------------------------------ generateSummary
\* The three programs: the first one of src/index.js, the one that fetches all
\* records (src/unnamed/part_000) and the streaming one of src/index.js.
Variants == {"first", "fetching", "streaming"}

\* const DIRECT_INPUT_THRESHOLD and const PROMPT_LENGTH_THRESHOLD of each program.
DIRECT_INPUT_THRESHOLD(v) == IF v = "streaming" THEN 1500 ELSE 2000
PROMPT_LENGTH_THRESHOLD(v) == IF v = "streaming" THEN 200000 ELSE 256000

\* The test in front of the direct JSON branch, program by program.  length is
\* potentialFullPrompt.length, count is activities.length.
DirectInputFirst(count, length) ==
  length < PROMPT_LENGTH_THRESHOLD("first") /\ count <= DIRECT_INPUT_THRESHOLD("first")
DirectInputFetching(count, length) ==
  length < PROMPT_LENGTH_THRESHOLD("fetching") /\ count < DIRECT_INPUT_THRESHOLD("fetching")
DirectInputStreaming(count, length) ==
  /\ length < PROMPT_LENGTH_THRESHOLD("streaming")
  /\ count < DIRECT_INPUT_THRESHOLD("streaming")
DirectInput(v, count, length) ==
  IF v = "first" THEN DirectInputFirst(count, length)
  ELSE IF v = "fetching" THEN DirectInputFetching(count, length)
  ELSE DirectInputStreaming(count, length)

\* The calls looked at: no activities (the quarterly call), one activity, and counts
\* and prompt lengths next to the thresholds.
Counts(v) ==
  {0, 1, DIRECT_INPUT_THRESHOLD(v) - 1, DIRECT_INPUT_THRESHOLD(v),
   DIRECT_INPUT_THRESHOLD(v) + 1}
Lengths(v) ==
  {PROMPT_LENGTH_THRESHOLD(v) - 1, PROMPT_LENGTH_THRESHOLD(v),
   PROMPT_LENGTH_THRESHOLD(v) + 1}
RunOutcomes ==
  {"arguments", "no tool call", "empty tool calls", "wrong function", "unparsable",
   "completed", "failed", "cancelled", "expired", "throws"}

\* What is left of the try block once createAndPoll has settled: the parsed
\* arguments are returned ("summary") when the run requires action, its first tool
\* call names functionSchema.name and JSON.parse takes the arguments; a completed run
\* goes on to messages.list; everything else is thrown.
RunResultUnchecked(outcome) ==
  IF outcome \in {"arguments", "wrong function"} THEN "summary"
  ELSE IF outcome = "completed" THEN "list"
  ELSE "error"
RunResult(outcome) ==
  IF outcome = "arguments" THEN "summary"
  ELSE IF outcome = "completed" THEN "list"
  ELSE "error"

GenInit ==
  /\ input = <<>>
  /\ jobState = "absent"
  /\ Called
  /\ Fresh
  /\ \E v \in Variants :
       \E count \in Counts(v), length \in Lengths(v) :
         gs = [NoCall EXCEPT !.variant = v, !.count = count, !.length = length,
                             !.pc = "thread"]

pipelineVars ==
  <<streamVars, closureVars, controlVars, obsVars, posts, groupedData, requestVars,
    runVars>>

\* catch (error) { throw error } finally { ... }: the temporary file is unlinked if
\* its path was set, the uploaded file deleted if its id was set.
Finally(g, result) ==
  [g EXCEPT !.result = result,
            !.pc = IF g.tempFilePath THEN "unlink"
                   ELSE IF g.fileId THEN "delFile" ELSE "done"]

\* thread = await openaiClient.beta.threads.create(), then the choice of the input
\* method up to the next await.  In the fetching program the file name is built from
\* accountId, which is not in scope there: a ReferenceError.
GenThreadCreate ==
  /\ gs.pc = "thread"
  /\ \E ok \in BOOLEAN :
       IF ~ok
       THEN gs' = Finally(gs, "error")
       ELSE IF gs.count = 0
            THEN gs' = [gs EXCEPT !.pc = "message"]
            ELSE IF DirectInput(gs.variant, gs.count, gs.length)
                 THEN gs' = [gs EXCEPT !.inputMethod = "direct JSON", !.pc = "message"]
                 ELSE IF gs.variant = "fetching"
                      THEN gs' = Finally([gs EXCEPT !.inputMethod = "file upload"],
                                         "error")
                      ELSE gs' = [gs EXCEPT !.inputMethod = "file upload",
                                            !.tempFilePath = TRUE,
                                            !.pc = IF gs.variant = "first"
                                                   THEN "ensureDir" ELSE "write"]
  /\ UNCHANGED pipelineVars

\* await fs.ensureDir(path.dirname(filePath)), in the first program only.
GenEnsureDir ==
  /\ gs.pc = "ensureDir"
  /\ \E ok \in BOOLEAN :
       gs' = IF ok THEN [gs EXCEPT !.pc = "write"] ELSE Finally(gs, "error")
  /\ UNCHANGED pipelineVars

\* await fs.writeFile(tempFilePath, activitiesText)
GenWriteFile ==
  /\ gs.pc = "write"
  /\ \E ok \in BOOLEAN :
       gs' = IF ok THEN [gs EXCEPT !.written = TRUE, !.pc = "upload"]
             ELSE Finally(gs, "error")
  /\ UNCHANGED pipelineVars

\* await openaiClient.files.create(...), then the attachment of the file.
GenUpload ==
  /\ gs.pc = "upload"
  /\ \E ok \in BOOLEAN :
       gs' = IF ok
             THEN [gs EXCEPT !.fileId = TRUE, !.uploaded = TRUE, !.attachments = 1,
                             !.pc = "message"]
             ELSE Finally(gs, "error")
  /\ UNCHANGED pipelineVars

\* A finalUserPrompt that keeps the serialized batch in file-upload delivery.
finalUserPromptKeepsJson(v, inputMethod) ==
  [json |-> IF inputMethod = "prompt" THEN "none" ELSE "pretty",
   instruction |-> inputMethod = "file upload" /\ v # "first"]

\* finalUserPrompt: userPrompt alone; with the pretty-printed JSON of the activities
\* behind it in direct JSON delivery; with the sentence "Please analyze the activity
\* data provided in the attached file." behind it in file-upload delivery, which the
\* first program leaves out.
finalUserPrompt(v, inputMethod) ==
  [json |-> IF inputMethod = "direct JSON" THEN "pretty" ELSE "none",
   instruction |-> inputMethod = "file upload" /\ v # "first"]

\* What JSON.stringify(activities, null, 2) is longer by than
\* JSON.stringify(activities), for activities of the four fields Id, Description,
\* Subject and ActivityDate: a line break and two spaces in front of each brace, a
\* line break, four spaces and the space behind the colon for each field, and the
\* line break in front of the closing bracket.
PrettyOverhead(count) == count * (3 + 4 * 6 + 3) + 1

\* finalUserPrompt.length in direct JSON delivery, from potentialFullPrompt.length:
\* the first program sends the text it measured, the other two measure with
\* JSON.stringify(activities) and send JSON.stringify(activities, null, 2).
finalPromptLength(v, count, length) ==
  IF v = "first" THEN length ELSE length + PrettyOverhead(count)

\* messagePayload = { role: "user", content: finalUserPrompt }, with the attachments
\* when there are any.
messagePayload(g) ==
  [sent |-> TRUE,
   json |-> finalUserPrompt(g.variant, g.inputMethod).json,
   instruction |-> finalUserPrompt(g.variant, g.inputMethod).instruction,
   attachments |-> g.attachments,
   inlineLength |-> IF g.inputMethod = "direct JSON"
                    THEN finalPromptLength(g.variant, g.count, g.length) ELSE 0]

\* await openaiClient.beta.threads.messages.create(thread.id, messagePayload)
GenMessage ==
  /\ gs.pc = "message"
  /\ \E ok \in BOOLEAN :
       gs' = IF ok THEN [gs EXCEPT !.message = messagePayload(gs), !.pc = "run"]
             ELSE Finally([gs EXCEPT !.message = messagePayload(gs)], "error")
  /\ UNCHANGED pipelineVars

\* await openaiClient.beta.threads.runs.createAndPoll(...) and what the run's status
\* leads to: the parsed arguments are returned, anything else is thrown, a completed
\* run after a look at the last message.
GenRun ==
  /\ gs.pc = "run"
  /\ \E outcome \in RunOutcomes :
       gs' = IF RunResult(outcome) = "list"
             THEN [gs EXCEPT !.run = outcome, !.pc = "list"]
             ELSE Finally([gs EXCEPT !.run = outcome], RunResult(outcome))
  /\ UNCHANGED pipelineVars

\* await openaiClient.beta.threads.messages.list(...), then the throw.
GenList ==
  /\ gs.pc = "list"
  /\ gs' = Finally(gs, "error")
  /\ UNCHANGED pipelineVars

\* An unlink whose failure leaves the finally block as an exception.
UnlinkPropagates(g, ok) ==
  IF ok
  THEN [g EXCEPT !.tempFilePath = FALSE, !.unlinks = @ + 1,
                 !.pc = IF g.fileId THEN "delFile" ELSE "done"]
  ELSE [g EXCEPT !.unlinks = @ + 1, !.result = "error", !.pc = "done"]

\* try { await fs.unlink(tempFilePath) } catch (unlinkError) { console.error(...) }:
\* tempFilePath stays TRUE in the model when the file could not be removed.
Unlink(g, ok) ==
  [g EXCEPT !.tempFilePath = ~ok, !.unlinks = @ + 1,
            !.pc = IF g.fileId THEN "delFile" ELSE "done"]

\* await fs.unlink(tempFilePath): a failure is logged only.
GenUnlink ==
  /\ gs.pc = "unlink"
  /\ \E ok \in BOOLEAN : gs' = Unlink(gs, ok)
  /\ UNCHANGED pipelineVars

\* What openaiClient.files.del can do: delete the file, answer 404 (NotFoundError)
\* or fail otherwise.
DelOutcomes == {"deleted", "not found", "error"}

\* await openaiClient.files.del(fileId): a failure is logged only.  fileId stays
\* TRUE in the model when the deletion threw.
GenDelFile ==
  /\ gs.pc = "delFile"
  /\ \E outcome \in DelOutcomes :
       gs' = [gs EXCEPT !.fileId = (outcome # "deleted"), !.dels = @ + 1, !.pc = "done"]
  /\ UNCHANGED pipelineVars

GenNext ==
  \/ GenThreadCreate
  \/ GenEnsureDir
  \/ GenWriteFile
  \/ GenUpload
  \/ GenMessage
  \/ GenRun
  \/ GenList
  \/ GenUnlink
  \/ GenDelFile

SpecGen == GenInit /\ [][GenNext]_vars

\* ------------------------------------------ POST /generatesummary
\* The Authorization header: missing, of another scheme, "Bearer " with nothing
\* behind it, or "Bearer " and a token.
AuthHeaders == {"none", "Basic", "Bearer", "Bearer token"}
\* authHeader.startsWith("Bearer ")
startsWithBearer(authHeader) == authHeader \in {"Bearer", "Bearer token"}
\* authHeader.split(" ")[1]
accessToken(authHeader) == IF authHeader = "Bearer token" THEN "token" ELSE ""

\* The body parameters the handler requires; a request lacks one of them or none.
RequiredParams ==
  {"accountId", "callbackUrl", "queryText", "userPrompt", "userPromptQtr",
   "loggedinUserId"}

\* A queryText is taken by the fragments its lower-case form includes.  A text that
\* includes 'order by activitydate asc' includes 'activitydate'.
Fragments == {"select", "from", "activitydate", "order by activitydate asc"}
QueryTexts ==
  {t \in SUBSET Fragments : "order by activitydate asc" \in t => "activitydate" \in t}
\* A check of the order that is content with the field and does not ask for ASC.
includesField(queryText, fragment) ==
  IF fragment = "order by activitydate asc"
  THEN "activitydate" \in queryText
  ELSE fragment \in queryText

\* queryText.toLowerCase().includes(fragment)
includes(queryText, fragment) == fragment \in queryText

\* summaryMap: not given, not JSON, the JSON text null (Object.entries(null) throws),
\* or a JSON object.  monthJSON and qtrJSON: not given, not JSON, null, a schema of
\* another name, or a schema of the expected name.
SummaryMaps == {"absent", "unparseable", "null", "object"}
SchemaTexts == {"absent", "unparseable", "null", "other name", "named"}
\* The lookup of a request whose summaryMap is {"Feb 2024": <record 1>}.
ParsedSummaryMap ==
  [isArray |-> TRUE,
   items |-> << [key |-> [label |-> "Feb", year |-> 2024, spelling |-> "as built"],
                 value |-> 1] >>]

Requests ==
  [auth : AuthHeaders, missing : {"none"} \cup RequiredParams, queryText : QueryTexts,
   summaryMap : SummaryMaps, monthJSON : SchemaTexts, qtrJSON : SchemaTexts]

\* The try block of the optional JSON inputs throws.
ParseThrows(r) ==
  \/ r.summaryMap \in {"unparseable", "null"}
  \/ r.monthJSON \in {"unparseable", "null", "other name"}
  \/ r.qtrJSON \in {"unparseable", "null", "other name"}

\* defaultFunctions holds a schema of either name, so a schema is always found.
defaultFunctions ==
  {"generate_monthly_activity_summary", "generate_quarterly_activity_summary"}
SchemasFound ==
  /\ "generate_monthly_activity_summary" \in defaultFunctions
  /\ "generate_quarterly_activity_summary" \in defaultFunctions

\* The response the handler sends, check by check in the order of the code.
RouteResponse(r) ==
  IF ~startsWithBearer(r.auth)
  THEN [status |-> 401, error |-> "Unauthorized"]
  ELSE IF r.missing # "none" \/ accessToken(r.auth) = ""
  THEN [status |-> 400, error |-> "Missing required parameters"]
  ELSE IF \/ ~includes(r.queryText, "select")
          \/ ~includes(r.queryText, "from")
          \/ ~includes(r.queryText, "activitydate")
  THEN [status |-> 400, error |-> "queryText must be a valid SOQL query"]
  ELSE IF ~includes(r.queryText, "order by activitydate asc")
  THEN [status |-> 400, error |-> "queryText must include ORDER BY ActivityDate ASC"]
  ELSE IF ParseThrows(r)
  THEN [status |-> 400, error |-> "Invalid JSON provided"]
  ELSE IF ~SchemasFound
  THEN [status |-> 500, error |-> "Could not load function schemas"]
  ELSE [status |-> 202, error |-> ""]

\* A handler that starts processSummary for an accepted request and sends no 202.
PostGenerateSummaryUnanswered ==
  /\ mpc = "route"
  /\ req' = NoRequest
  /\ IF RouteResponse(req).status = 202
     THEN /\ mpc' = "start"
          /\ res' = res
          /\ summaryRecordsMap' =
               IF req.summaryMap = "object" THEN ParsedSummaryMap ELSE NoLookup
     ELSE /\ mpc' = "refused"
          /\ res' = Append(res, RouteResponse(req))
          /\ UNCHANGED summaryRecordsMap
  /\ UNCHANGED <<streamVars, closureVars, promise, hpc, hrec, epc, batch, qi, qn, q,
                 obsVars, posts, groupedData, gs, persist, runVars>>

\* app.post('/generatesummary', ...): the handler answers the request.  Behind a 202
\* it calls processSummary in the same turn (mpc = "start": the call is the next
\* thing to run); behind any other response it returns.
PostGenerateSummary ==
  /\ mpc = "route"
  /\ res' = Append(res, RouteResponse(req))
  /\ req' = NoRequest
  /\ IF RouteResponse(req).status = 202
     THEN /\ mpc' = "start"
          /\ summaryRecordsMap' =
               IF req.summaryMap = "object" THEN ParsedSummaryMap ELSE NoLookup
     ELSE /\ mpc' = "refused"
          /\ UNCHANGED summaryRecordsMap
  /\ UNCHANGED <<streamVars, closureVars, promise, hpc, hrec, epc, batch, qi, qn, q,
                 obsVars, posts, groupedData, gs, persist, runVars>>

RouteInit ==
  /\ input = <<>>
  /\ jobState \in JobStates
  /\ gs = NoCall
  /\ mpc = "route"
  /\ req \in Requests
  /\ res = <<>>
  /\ summaryRecordsMap = NoLookup
  /\ persist = NoPersist
  /\ Fresh

\* ------------------------- createTimileSummarySalesforceRecords alone
\* The record Ids, the keys and the lookups looked at: up to MaxLookup entries, also
\* with one key twice or in another spelling.
RecordIds == 1..MaxRecordIds
PersistYears == {2024, 2025}
PersistPeriods(summaryCategory) ==
  IF summaryCategory = "Quarterly" THEN {"Q1", "Q2"} ELSE {"February", "March"}
LookupKeys ==
  [label : {"Feb", "Mar", "Q1"}, year : PersistYears, spelling : Spellings]
LookupItems == [key : LookupKeys, value : RecordIds]
Lookups ==
  {NoLookup} \cup
  UNION {[isArray : {TRUE}, items : [1..n -> LookupItems]] : n \in 0..MaxLookup}

PersistInit ==
  /\ input = <<>>
  /\ jobState = "absent"
  /\ gs = NoCall
  /\ mpc = "start"
  /\ req = NoRequest
  /\ res = <<>>
  /\ summaryRecordsMap \in Lookups
  /\ \E summaryCategory \in {"Monthly", "Quarterly"}, year \in PersistYears :
       \E periodKey \in PersistPeriods(summaryCategory) :
         persist = [category |-> summaryCategory, year |-> year,
                    periodKey |-> periodKey, calls |-> <<>>]
  /\ Fresh

\* What conn.bulk.load answers for the one record of a call: a result with
\* success true, a result with success false and its errors, or an exception.
BulkOutcomes == {"loaded", "record failed", "throws"}

\* A save that throws for every record that was not stored.
saveThrowsUnlessLoaded(outcome) == outcome # "loaded"

\* try { ... results.forEach(res => { if (!res.success) console.error(...) }) }
\* catch (err) { throw new Error(`Salesforce save operation failed: ...`) }: whether
\* the call throws.
saveThrows(outcome) == outcome = "throws"

\* One call from the try block of its caller: what it queues, what the bulk load
\* answers, and the caller's catch block (of processAndSaveMonthBatch for Monthly, of
\* the quarter loop for Quarterly) when the call throws.
Persist ==
  /\ persist.category # ""
  /\ callbacks = <<>>
  /\ Len(persist.calls) < MaxCalls
  /\ \E outcome \in BulkOutcomes, e \in ErrLens :
       /\ persist' = [persist EXCEPT !.calls = Append(@,
            [queued |-> createTimileSummarySalesforceRecords(
                          persist.category, persist.year, persist.periodKey,
                          summaryRecordsMap),
             lookup |-> summaryRecordsMap,
             outcome |-> outcome,
             thrown |-> saveThrows(outcome)])]
       /\ IF saveThrows(outcome)
          THEN /\ overallStatus' = "Failed"
               /\ failureMessages' = Append(failureMessages,
                    IF persist.category = "Monthly"
                    THEN MonthFailure(persist.year, persist.periodKey, e)
                    ELSE QuarterFailure(<<persist.year, persist.periodKey>>, e))
          ELSE /\ e = ShortErr
               /\ UNCHANGED <<overallStatus, failureMessages>>
  /\ UNCHANGED <<streamVars, recordCount, streamPaused, currentYear, currentMonth,
                 currentMonthActivities, quarterlyInputs, controlVars, obsVars, posts,
                 groupedData, gs, req, res, summaryRecordsMap, runVars>>

SpecPersist == PersistInit /\ [][Persist]_vars

\* The callback of normal completion that follows the saves of a run: finalMessage is
\* chosen by overallStatus and sendCallbackResponse gets "Completed", the message
\* and overallStatus.
PersistReport ==
  /\ persist.category # ""
  /\ callbacks = <<>>
  /\ callbacks' = Append(callbacks,
       CallbackBody("normal", overallStatus, FinalMessage(overallStatus, failureMessages)))
  /\ UNCHANGED <<streamVars, closureVars, controlVars, batches, gsCalls, saves, posts,
                 sideVars>>

SpecReport == PersistInit /\ [][Persist \/ PersistReport]_vars

\* --------------------------------------------- runs side by side
\* Each accepted request starts its own processSummary: conn, quarterlyInputs,
\* overallStatus, failureMessages, recordCount, currentYear, currentMonth and
\* currentMonthActivities are locals of that call, and fileId, thread, tempFilePath
\* and inputMethod are locals of each generateSummary call.  What the runs share is
\* the OpenAI client and the directory TEMP_FILE_DIR.  A run is followed through one
\* month batch whose generateSummary call takes the file-upload branch; its
\* activities text is written as the number of the run.  Thread ids are assigned by
\* OpenAI and no two threads have the same one.
AccountIds == {"001A", "001B"}
Timestamps == 1..MaxClock
NoFile == [accountId |-> "", timestamp |-> 0, thread |-> 0]

\* A file name without the thread id.
fileNameWithoutThread(accountId, timestamp, thread) ==
  [accountId |-> accountId, timestamp |-> timestamp, thread |-> 0]

\* `activities_${accountId}_${timestamp}_${thread.id}.txt`
fileName(accountId, timestamp, thread) ==
  [accountId |-> accountId, timestamp |-> timestamp, thread |-> thread]

NewRun(accountId) ==
  [accountId |-> accountId, pc |-> "thread", thread |-> 0, tempFilePath |-> NoFile,
   written |-> FALSE, fileId |-> FALSE, uploadedText |-> 0, apiFailed |-> FALSE,
   result |-> "none", overallStatus |-> "Success", failureMessages |-> <<>>]

\* The text of the file of that name, 0 when there is none.
TextOf(name) ==
  IF \E f \in tempFiles : f.name = name
  THEN (CHOOSE f \in tempFiles : f.name = name).text
  ELSE 0
WithFile(name, text) ==
  {f \in tempFiles : f.name # name} \cup {[name |-> name, text |-> text]}
WithoutFile(name) == {f \in tempFiles : f.name # name}

\* The finally block of generateSummary, as Finally above.
RunFinally(g, result) ==
  [g EXCEPT !.result = result,
            !.pc = IF g.tempFilePath # NoFile THEN "unlink"
                   ELSE IF g.fileId THEN "delFile" ELSE "caller"]

\* A request is accepted and its processSummary reaches generateSummary.
RunStart ==
  /\ Len(runs) < MaxRuns
  /\ \E accountId \in AccountIds : runs' = Append(runs, NewRun(accountId))
  /\ UNCHANGED tempFiles

\* thread = await openaiClient.beta.threads.create(), then the name of the file.
RunThreadCreate(r) ==
  /\ runs[r].pc = "thread"
  /\ \E ok \in BOOLEAN, timestamp \in Timestamps :
       IF ok
       THEN LET thread == 1 + Cardinality({x \in 1..Len(runs) : runs[x].thread # 0})
            IN  runs' = [runs EXCEPT ![r].thread = thread,
                                     ![r].tempFilePath =
                                        fileName(runs[r].accountId, timestamp, thread),
                                     ![r].pc = "write"]
       ELSE /\ timestamp = 1
            /\ runs' = [runs EXCEPT ![r] = RunFinally([@ EXCEPT !.apiFailed = TRUE],
                                                     "error")]
  /\ UNCHANGED tempFiles

\* await fs.writeFile(tempFilePath, activitiesText): it replaces a file of that name.
RunWriteFile(r) ==
  /\ runs[r].pc = "write"
  /\ \E ok \in BOOLEAN :
       IF ok
       THEN /\ tempFiles' = WithFile(runs[r].tempFilePath, r)
            /\ runs' = [runs EXCEPT ![r].written = TRUE, ![r].pc = "upload"]
       ELSE /\ runs' = [runs EXCEPT ![r] = RunFinally([@ EXCEPT !.apiFailed = TRUE],
                                                     "error")]
            /\ UNCHANGED tempFiles

\* fs.createReadStream(tempFilePath) and await openaiClient.files.create(...): the
\* upload carries the text the file has now, and fails when the file is not there.
RunUpload(r) ==
  /\ runs[r].pc = "upload"
  /\ \E ok \in BOOLEAN :
       IF TextOf(runs[r].tempFilePath) = 0
       THEN /\ ok
            /\ runs' = [runs EXCEPT ![r] = RunFinally(@, "error")]
       ELSE IF ok
            THEN runs' = [runs EXCEPT ![r].fileId = TRUE,
                                      ![r].uploadedText = TextOf(runs[r].tempFilePath),
                                      ![r].pc = "run"]
            ELSE runs' = [runs EXCEPT ![r] = RunFinally([@ EXCEPT !.apiFailed = TRUE],
                                                        "error")]
  /\ UNCHANGED tempFiles

\* The message, the run and its outcome: the parsed arguments or an exception.
RunRun(r) ==
  /\ runs[r].pc = "run"
  /\ \E outcome \in {"arguments", "failed"} :
       runs' = [runs EXCEPT ![r] =
                  IF RunResult(outcome) = "summary"
                  THEN RunFinally(@, "summary")
                  ELSE RunFinally([@ EXCEPT !.apiFailed = TRUE], "error")]
  /\ UNCHANGED tempFiles

\* await fs.unlink(tempFilePath): it removes the file of that name, whoever wrote
\* it; a failure is logged only.
RunUnlink(r) ==
  /\ runs[r].pc = "unlink"
  /\ \E ok \in BOOLEAN :
       /\ tempFiles' = IF ok THEN WithoutFile(runs[r].tempFilePath) ELSE tempFiles
       /\ runs' = [runs EXCEPT ![r].pc = IF runs[r].fileId THEN "delFile" ELSE "caller"]

\* await openaiClient.files.del(fileId): a failure is logged only.
RunDelFile(r) ==
  /\ runs[r].pc = "delFile"
  /\ runs' = [runs EXCEPT ![r].pc = "caller"]
  /\ UNCHANGED tempFiles

\* Back in processAndSaveMonthBatch: the catch block when generateSummary threw.
RunCaller(r) ==
  /\ runs[r].pc = "caller"
  /\ \E e \in ErrLens :
       IF runs[r].result = "error"
       THEN runs' = [runs EXCEPT
                       ![r].overallStatus = "Failed",
                       ![r].failureMessages = Append(@, MonthFailure(2024, "February", e)),
                       ![r].pc = "done"]
       ELSE /\ e = ShortErr
            /\ runs' = [runs EXCEPT ![r].pc = "done"]
  /\ UNCHANGED tempFiles

RunsNext ==
  /\ \/ RunStart
     \/ \E r \in 1..Len(runs) :
          \/ RunThreadCreate(r)
          \/ RunWriteFile(r)
          \/ RunUpload(r)
          \/ RunRun(r)
          \/ RunUnlink(r)
          \/ RunDelFile(r)
          \/ RunCaller(r)
  /\ UNCHANGED <<streamVars, closureVars, controlVars, obsVars, posts, groupedData, gs,
                 requestVars>>

RunsInit ==
  /\ input = <<>>
  /\ jobState = "absent"
  /\ gs = NoCall
  /\ Called
  /\ Fresh

SpecRuns == RunsInit /\ [][RunsNext]_vars


\* ---------------------------------------------------------------- spec
Progress ==
  \/ SetupThrows
  \/ QueryThrows
  \/ StartStream
  \/ \E d \in {0} \cup Dates : OnRecord(d)
  \/ OnEnd
  \/ \E p \in Callers : BatchCreate(p)
  \/ \E p \in Callers : BatchGenerate(p)
  \/ \E p \in Callers : BatchSave(p)
  \/ \E p \in Callers : BatchDelete(p)
  \/ QuarterCreate
  \/ QuarterGenerate
  \/ QuarterSave
  \/ QuarterDelete
  \/ CallbackDone
  \/ OuterCatch

Next == Progress \/ \E e \in ErrLens : OnError(e)

Spec == Init /\ [][Next]_vars

\* Every external call returns or fails and the stream, while it may emit, goes on to
\* its end; that the stream fails is never required.
FairSpec == Spec /\ WF_vars(Progress)

\* The request, the handler, and the run that an accepted request starts.
RouteNext == PostGenerateSummary \/ Next
SpecRoute == RouteInit /\ [][RouteNext]_vars

\* =============================================================== claims
BatchFailed(b) == b.result \notin {"running", "saved"}

\* processSummary has returned and no handler of the stream is still running.
Finished ==
  /\ mpc = "done"
  /\ hpc = "idle"
  /\ \A p \in Callers : batch[p].pc = "none"

\* C1: in every run sendCallbackResponse is called at most once, counting the call at
\* normal completion, the call in the catch block and the call of the route handler's
\* guard, and exactly once when processSummary has terminated, whatever failed on the
\* way and whether or not the callback's POST succeeded.
ExactlyOneCallback ==
  /\ Len(callbacks) <= 1
  /\ mpc = "done" => Len(callbacks) = 1

\* C1 happens: a run that recorded failures ended at its normal completion, and the
\* POST of its one callback failed.
OneCallbackAfterFailedPost ==
  /\ mpc = "done"
  /\ Len(callbacks) = 1
  /\ callbacks[1].site = "normal"
  /\ Len(failureMessages) >= 2
  /\ posts = <<FALSE>>

\* C2 as stated: under fairness every run eventually sends its callback, also after
\* the 'record' handler paused the stream and did not resume it.  The code does not
\* do this: a stream that was paused and not resumed emits neither 'end' nor 'error',
\* the stream promise stays pending and no callback is sent.
CallbackEventuallySent == <>(Len(callbacks) > 0)

\* C3 as stated: when a month batch fails the failure stays within that batch, the
\* later batches are still processed, and the quarter phase still runs.  A run of the
\* fetching program that has sent its callback after a month failed would have gone
\* through the quarter loop to the callback of normal completion.  It never does:
\* the release of groupedData between the two loops throws (see C10).
QuarterPhaseRunsAfterMonthFailure ==
  (mpc = "done" /\ \E b \in 1..Len(batches) : BatchFailed(batches[b]))
    => /\ \A b \in 1..Len(batches) : batches[b].result # "running"
       /\ Len(batches) = Len(groupedData)
       /\ callbacks[1].site = "normal"

\* The part of C4 that the truncation of the message concerns: position i of the
\* failure messages is the message of batch b, and its month name is in what is sent.
NamedInMessage(c, b) ==
  LET msg == callbacks[c].message
      i   == batches[b].failure
  IN  /\ i <= Len(msg.parts)
      /\ msg.parts[i].kind = "month"
      /\ msg.parts[i].label = batches[b].month
      /\ msg.parts[i].year = batches[b].year
      /\ LabelSent(msg, i)

\* A callback of normal completion whose message was built after batch b had failed.
SentAfterFailure(c, b) ==
  /\ callbacks[c].site = "normal"
  /\ BatchFailed(batches[b])
  /\ batches[b].failure <= Len(callbacks[c].message.parts)

MonthlySaved(b) ==
  \E k \in 1..Len(saves) :
    /\ saves[k].category = "Monthly"
    /\ saves[k].output.batch = b
    /\ saves[k].year = batches[b].year
    /\ saves[k].period = batches[b].month
    /\ saves[k].count = Len(batches[b].activities)

Handed(i) ==
  UNION { { <<b, k>> : k \in {j \in 1..Len(batches[b].activities) :
                                batches[b].activities[j].Id = i} } :
          b \in 1..Len(batches) }

\* C5 as stated: over a run whose stream came to its end, every record with a usable
\* ActivityDate is handed to exactly one batch and no other record is.  The code
\* drops the records that arrive while streamPaused is true, and when 'end' arrives
\* during such a wait the open list is handed over twice and the record that
\* triggered the flush not at all.
RecordsHandedExactlyOnce ==
  (Finished /\ streamEnded)
    => \A i \in 1..Len(input) :
         Cardinality(Handed(i)) = IF input[i] = 0 THEN 0 ELSE 1

\* The (year, month) pairs of the input, as dates of the calendar, and the number of
\* valid records of each.
Periods == {input[i] : i \in 1..Len(input)} \ {0}
CountOf(d) == Cardinality({i \in 1..Len(input) : input[i] = d})
Rank(d) == Cardinality({x \in Periods : x <= d})

\* C6 as stated: when every (year, month) of the input has fewer records than the
\* sub-batch size, a run whose stream came to its end has made exactly one batch per
\* (year, month), in ascending order, the last one from the 'end' handler.  It fails
\* on the records that C5 shows to be dropped.
OneBatchPerMonthInOrder ==
  (Finished /\ streamEnded /\ \A d \in Periods : CountOf(d) < BULK_QUERY_BATCH_SIZE)
    => /\ Len(batches) = Cardinality(Periods)
       /\ \A b \in 1..Len(batches) :
            \E d \in Periods :
              /\ Rank(d) = b
              /\ batches[b].year = getUTCFullYear(d)
              /\ batches[b].month = toLocaleMonth(d)
       /\ Len(batches) > 0 => batches[Len(batches)].by = "end"

\* C7 as stated: M valid records of one month, M above the sub-batch size S, make
\* ceil(M/S) batches, all of that month.  It fails on the records that C5 shows to
\* be dropped.
CeilBatchesForOneMonth ==
  LET M == Len(input) - CountOf(0)
      S == BULK_QUERY_BATCH_SIZE
  IN  (Finished /\ streamEnded /\ Cardinality(Periods) = 1 /\ M > S)
        => /\ Len(batches) = (M + S - 1) \div S
           /\ \A b \in 1..Len(batches), d \in Periods :
                /\ batches[b].year = getUTCFullYear(d)
                /\ batches[b].month = toLocaleMonth(d)

\* C9 as stated: after the month batches, every quarterKey with a monthly result gets
\* exactly one quarterly generateSummary call.  In the fetching program none is ever
\* made (see C10).
OneQuarterlyCallPerKey ==
  mpc = "done"
    => \A i \in 1..Len(quarterlyInputs) :
         Cardinality({k \in 1..Len(gsCalls) :
                        /\ gsCalls[k].category = "Quarterly"
                        /\ gsCalls[k].key = quarterlyInputs[i].key}) = 1

\* C10 as stated: when the callback is sent, every quarterKey that received a monthly
\* result has been through the quarter loop.  In the fetching program the statement
\* between the month loop and the quarter loop, groupedData = null, assigns to a
\* const binding: it throws, the catch block sends the callback, and the quarter loop
\* is never entered.
QuartersAggregatedBeforeCallback ==
  \A i \in 1..Len(quarterlyInputs) :
    Len(callbacks) > 0 => quarterlyInputs[i].released

\* C8 as stated: generateSummary gives the activities inline only when their number
\* is below the count threshold and the prompt length is below the length threshold;
\* a call with the number at the count threshold, or the length at the length
\* threshold, goes to file upload.  The first program of src/index.js tests the
\* number with <=, so a call with exactly DIRECT_INPUT_THRESHOLD activities goes
\* inline there.
InlineOnlyBelowThresholds ==
  /\ gs.inputMethod = "direct JSON"
       => /\ gs.count < DIRECT_INPUT_THRESHOLD(gs.variant)
          /\ gs.length < PROMPT_LENGTH_THRESHOLD(gs.variant)
  /\ ( /\ gs.pc \notin {"none", "thread"}
       /\ gs.result # "error" \/ gs.inputMethod # "prompt"
       /\ \/ gs.count = DIRECT_INPUT_THRESHOLD(gs.variant)
          \/ gs.count > 0 /\ gs.length = PROMPT_LENGTH_THRESHOLD(gs.variant) )
       => gs.inputMethod = "file upload"

\* The quarterKey a month's AI output is accumulated under.
QuarterKeyOf(year, month) ==
  <<year, getQuarterFromMonthIndex(monthMap[toLowerCase[month]])>>

\* The monthly AI outputs pushed to the monthSummaries of quarterKey so far, in the
\* order in which their batches completed.
Accumulated(key) ==
  LET Pushed(s) == /\ s.category = "Monthly"
                   /\ QuarterKeyOf(s.year, s.period) = key
                   /\ batches[s.output.batch].result = "saved"
      sel == SelectSeq(saves, Pushed)
  IN  [i \in 1..Len(sel) |-> sel[i].output]

\* C11 as stated: the JSON array in the quarterly prompt that generateSummary gets for
\* a quarter holds every monthly AI output accumulated for the quarter, unchanged and
\* in the order of completion.  The prompt is built when the loop reaches the quarter,
\* before the await of assistants.create; a month batch that is still running then
\* (see C5) pushes its output behind the prompt's back, and the call leaves it out.
QuarterlyPromptHoldsAccumulated ==
  [][\A k \in (Len(gsCalls) + 1)..Len(gsCalls') :
       gsCalls'[k].category = "Quarterly"
         => gsCalls'[k].inputs = Accumulated(gsCalls'[k].key)]_vars

\* The entries of the lookup whose key is the key of the period of persist, in any
\* spelling.
PeriodEntries ==
  LET key == summaryMapKey(persist.category, persist.year, persist.periodKey)
  IN  {i \in 1..Len(summaryRecordsMap.items) :
         /\ summaryRecordsMap.items[i].key.label = key.label
         /\ summaryRecordsMap.items[i].key.year = key.year}

\* C12: when the lookup holds the key of the period, every call of
\* createTimileSummarySalesforceRecords for that (category, year, period) queues an
\* update, never a create, with the record Id of the first entry of that key, the
\* same in both calls; and the second call finds the lookup as the first one did.
UpdateBothTimes ==
  (summaryRecordsMap.isArray /\ PeriodEntries # {})
    => \A c \in 1..Len(persist.calls) :
         /\ persist.calls[c].queued.op = "update"
         /\ \E i \in PeriodEntries :
              /\ \A j \in PeriodEntries : i <= j
              /\ persist.calls[c].queued.Id = summaryRecordsMap.items[i].value
         /\ persist.calls[c].queued = persist.calls[1].queued
         /\ persist.calls[c].lookup = persist.calls[1].lookup

\* C12 happens: two calls for February 2024 with a lookup that holds the key twice,
\* first in upper case with record 2, then as the code spells it with record 1; the
\* first call's bulk load threw, and both calls queued the update of record 2.
TwoUpdatesOfFirstEntry ==
  /\ persist.category = "Monthly" /\ persist.periodKey = "February"
  /\ persist.year = 2024
  /\ summaryRecordsMap.isArray
  /\ Len(summaryRecordsMap.items) = 2
  /\ summaryRecordsMap.items[1] =
       [key |-> [label |-> "Feb", year |-> 2024, spelling |-> "upper"], value |-> 2]
  /\ summaryRecordsMap.items[2] =
       [key |-> [label |-> "Feb", year |-> 2024, spelling |-> "as built"], value |-> 1]
  /\ Len(persist.calls) = 2
  /\ persist.calls[1].thrown /\ ~persist.calls[2].thrown
  /\ persist.calls[2].queued = [op |-> "update", Id |-> 2]

\* Saves i and j are the Monthly saves of two sub-batches of one month: same period
\* label and year, no record in both batches.
SubBatchSaves(i, j) ==
  /\ i < j
  /\ saves[i].category = "Monthly" /\ saves[j].category = "Monthly"
  /\ saves[i].year = saves[j].year /\ saves[i].period = saves[j].period
  /\ LET a == batches[saves[i].output.batch].activities
         b == batches[saves[j].output.batch].activities
     IN  \A x \in 1..Len(a), y \in 1..Len(b) : a[x].Id # b[y].Id

\* C13 as stated: the Monthly save of a later sub-batch overwrites the record of the
\* earlier one, so that no second Monthly record is created for one period label and
\* year, whether or not the lookup holds the period's key.  Without the key in the
\* lookup each sub-batch queues a create: the first save's new record is never
\* entered in the lookup, and the second save inserts a second record.
LaterSubBatchSaveOverwrites ==
  \A i \in 1..Len(saves), j \in 1..Len(saves) :
    SubBatchSaves(i, j) => saves[j].queued.op = "update"

\* What every callback body has, whatever its processResult is called: status
\* "Completed"; Failed from the catch block and from the route handler's guard; at
\* normal completion Success with the success message and nothing else with it.
CallbackShape(c) ==
  /\ c.status = "Completed"
  /\ c.site \in {"catch", "outer"} => c.processResult = "Failed"
  /\ c.site = "normal"
       => (c.processResult = "Success"
             <=> c.message.kind = "Summary Processed Successfully")

\* C14 as stated: every callback body has status "Completed" and a processResult
\* that is Success, Failed or PartialSuccess.  The third value the code sends is the
\* text "Partial Success", with a space.
ProcessResultIsOneOfThree ==
  \A c \in 1..Len(callbacks) :
    /\ CallbackShape(callbacks[c])
    /\ callbacks[c].processResult \in {"Success", "Failed", "PartialSuccess"}

\* C14, amended: every callback body has status "Completed" and a processResult
\* that is one of exactly "Success", "Failed" and "Partial Success", on every path.
ProcessResultIsOneOfThreeTexts ==
  \A c \in 1..Len(callbacks) :
    /\ CallbackShape(callbacks[c])
    /\ callbacks[c].processResult \in {"Success", "Failed", "Partial Success"}

\* C14 happens: a run whose only failure was a quarterly output that did not pass
\* validation sent its callback with the third value.
PartialSuccessSent ==
  /\ mpc = "done"
  /\ Len(callbacks) = 1
  /\ callbacks[1].site = "normal"
  /\ callbacks[1].processResult = "Partial Success"
  /\ callbacks[1].message.kind = "Processing finished with issues"

\* C15: sendCallbackResponse never throws to its caller.  When the POST of a callback
\* has failed, processSummary has returned normally: it was not rejected into the
\* route handler's guard, and the failed callback is the only one.
FailedPostIsSwallowed ==
  /\ \A i \in 1..Len(posts) :
       ~posts[i] => /\ mpc = "done"
                    /\ Len(callbacks) = 1
                    /\ Len(posts) = 1
  /\ mpc \in {"rejected", "cbOuter"} => posts = <<>>

\* C15 happens: the stream failed, the catch block sent the callback, its POST
\* failed, and processSummary returned.
FailedPostOfCatchCallback ==
  /\ mpc = "done"
  /\ streamErrored
  /\ posts = <<FALSE>>
  /\ Len(callbacks) = 1
  /\ callbacks[1].site = "catch"

\* Fetching has failed: the stream emitted 'error', or conn.bulk.query threw.
FetchFailed ==
  \/ streamErrored
  \/ promise = "none" /\ Len(callbacks) > 0 /\ callbacks[1].site = "catch"

\* C16: once fetching has failed the callback of the catch block is the run's
\* callback, with processResult Failed; no quarterly generateSummary call is ever
\* made, and no processAndSaveMonthBatch call is started after the failure.
FetchFailureGoesToCallback ==
  /\ [](FetchFailed
          => /\ Len(callbacks) = 1
             /\ callbacks[1].site = "catch"
             /\ callbacks[1].processResult = "Failed"
             /\ mpc \in {"cbCatch", "done"}
             /\ \A k \in 1..Len(gsCalls) : gsCalls[k].category # "Quarterly")
  /\ [][FetchFailed => Len(batches') = Len(batches)]_vars

\* C16 happens: the stream failed after a month had been saved and while the
\* 'record' handler awaited a later batch; that batch finished, the callback was
\* sent, and the quarter of the saved month was never summarized.
StreamFailedAfterSavedMonth ==
  /\ streamErrored
  /\ Finished
  /\ Len(batches) >= 2
  /\ batches[1].result = "saved"
  /\ Len(quarterlyInputs) > 0
  /\ callbacks[1].processResult = "Failed"

\* The failure message a step has just appended, if it appended one.
Appended == failureMessages'[Len(failureMessages')]
QuarterlySavedFor(key) ==
  \E k \in 1..Len(saves) :
    /\ saves[k].category = "Quarterly"
    /\ saves[k].year = key[1] /\ saves[k].period = key[2]

\* C17: in the quarter loop, an AI output that fails the transform/validation is not
\* saved, and it makes overallStatus "Partial Success" unless it is "Failed" already,
\* which it then stays; a throwing assistant creation, AI call or save makes it
\* "Failed".  A quarter with a validation failure has no Quarterly save.
QuarterValidationDowngrades ==
  /\ [][(mpc = "quarters" /\ Len(failureMessages') = Len(failureMessages) + 1)
          => /\ Appended.kind = "transform"
                  => /\ q.pc = "generate" /\ q'.pc = "delete"
                     /\ saves' = saves
                     /\ overallStatus' = IF overallStatus = "Failed"
                                         THEN "Failed" ELSE "Partial Success"
             /\ Appended.kind = "quarter"
                  => /\ q.pc \in {"create", "generate", "save"}
                     /\ saves' = saves
                     /\ overallStatus' = "Failed"]_vars
  /\ [](\A i \in 1..Len(failureMessages) :
          failureMessages[i].kind = "transform"
            => ~QuarterlySavedFor(<<failureMessages[i].year, failureMessages[i].label>>))

\* C17 happens: the first quarter's save threw, the second quarter's output failed
\* validation, and the status stayed Failed in the callback.
ValidationFailureAfterFailedQuarter ==
  /\ mpc = "done"
  /\ Len(failureMessages) = 2
  /\ failureMessages[1].kind = "quarter"
  /\ failureMessages[2].kind = "transform"
  /\ failureMessages[1].label # failureMessages[2].label
  /\ \E k \in 1..Len(gsCalls) :
       /\ gsCalls[k].category = "Quarterly"
       /\ gsCalls[k].key = <<failureMessages[1].year, failureMessages[1].label>>
  /\ callbacks[1].processResult = "Failed"

\* The loop body was run for the quarterKey at position i: its quarterly
\* generateSummary call was made, or its assistant creation threw.
QuarterProcessed(i) ==
  \/ \E k \in 1..Len(gsCalls) :
       gsCalls[k].category = "Quarterly" /\ gsCalls[k].key = quarterlyInputs[i].key
  \/ \E m \in 1..Len(failureMessages) :
       /\ failureMessages[m].kind = "quarter"
       /\ <<failureMessages[m].year, failureMessages[m].label>> = quarterlyInputs[i].key

\* C18: a failure in one quarter stays in that quarter.  When the callback of normal
\* completion is sent, the loop body was run for every quarterKey the loop started
\* with, whatever failed in the quarters before; and from every point of the quarter
\* loop the run goes on to send its callback.
QuarterFailureContained ==
  /\ [](mpc \in {"cbNormal", "done"} /\ promise = "resolved"
          => /\ Len(callbacks) = 1 /\ callbacks[1].site = "normal"
             /\ \A i \in 1..qn : QuarterProcessed(i))
  /\ (mpc = "quarters") ~> (Len(callbacks) = 1)

\* C18 happens: the first of two quarters failed in its AI call, the second one was
\* summarized and saved, and the callback was sent.
SecondQuarterSavedAfterFailedFirst ==
  /\ mpc = "done"
  /\ qn = 2
  /\ Len(failureMessages) = 1
  /\ failureMessages[1].kind = "quarter"
  /\ <<failureMessages[1].year, failureMessages[1].label>> = quarterlyInputs[1].key
  /\ QuarterlySavedFor(quarterlyInputs[2].key)
  /\ callbacks[1].site = "normal"
  /\ callbacks[1].processResult = "Failed"

\* The request fails validation in one of the ways C19 lists.
FailsValidation(r) ==
  \/ r.auth \in {"none", "Basic"}
  \/ r.auth = "Bearer" \/ r.missing # "none"
  \/ \E f \in Fragments : f \notin r.queryText
  \/ "unparseable" \in {r.summaryMap, r.monthJSON, r.qtrJSON}
  \/ "other name" \in {r.monthJSON, r.qtrJSON}

\* Nothing of a processSummary run has happened.
NothingStarted ==
  /\ promise = "none"
  /\ batches = <<>> /\ gsCalls = <<>> /\ saves = <<>>
  /\ callbacks = <<>> /\ posts = <<>>

\* C19: the handler answers a request that fails validation with an error response
\* (401 or 400) and returns; after an error response there is one response, no 202,
\* processSummary is never started and no callback is sent.
RejectedRequestStartsNothing ==
  /\ [][(mpc = "route" /\ FailsValidation(req))
          => /\ res' = <<RouteResponse(req)>>
             /\ res'[1].status \in {400, 401}
             /\ mpc' = "refused"]_vars
  /\ [](mpc = "refused"
          => /\ Len(res) = 1
             /\ res[1].status # 202
             /\ NothingStarted)

\* C19 happens: a request with a Bearer token, every parameter and a query that
\* selects ActivityDate but does not order by it ascending was answered 400.
QueryWithoutOrderByRefused ==
  /\ mpc = "refused"
  /\ res = << [status |-> 400,
               error |-> "queryText must include ORDER BY ActivityDate ASC"] >>
  /\ NothingStarted

\* C20: whenever processSummary is about to start or has started, the one HTTP
\* response of the request is the 202 and it has been sent; no request gets a second
\* response; and nothing that happens in the run changes what was sent over HTTP.
AcknowledgedBeforeStart ==
  /\ [](mpc \notin {"route", "refused"}
          => res = << [status |-> 202, error |-> ""] >>)
  /\ [](Len(res) = IF mpc = "route" THEN 0 ELSE 1)
  /\ [][mpc # "route" => res' = res]_vars
  /\ [](mpc = "done" => Len(callbacks) = 1)

\* C20 happens: an accepted request with a summaryMap got its 202, the run failed in
\* a month and in the stream, and the failure went out in the callback.
FailureReportedByCallbackOnly ==
  /\ mpc = "done"
  /\ res = << [status |-> 202, error |-> ""] >>
  /\ summaryRecordsMap = ParsedSummaryMap
  /\ streamErrored
  /\ \E b \in 1..Len(batches) : BatchFailed(batches[b])
  /\ Len(callbacks) = 1
  /\ callbacks[1].processResult = "Failed"

\* C21: while the quarter loop runs no processAndSaveMonthBatch call is in flight
\* and none is started: every monthly AI call and monthly save is over before the
\* first quarterly prompt is built.
MonthlyWorkEndsBeforeQuarters ==
  /\ [](mpc = "quarters" => \A p \in Callers : batch[p].pc = "none")
  /\ [][mpc = "quarters" => batches' = batches]_vars

\* A step of a unit of work: an assistant is created or its deletion attempted, an
\* AI call is started or settles, or a Salesforce save returns or throws.
UnitSteps == {"create", "generate", "save", "delete"}
UnitStep ==
  \/ \E p \in Callers : batch[p].pc \in UnitSteps /\ batch'[p] # batch[p]
  \/ q.pc \in UnitSteps /\ q' # q
  \/ gsCalls' # gsCalls
  \/ saves' # saves

\* C22: once the terminal callback of the run has been sent, no assistant is
\* created or deleted, no AI call is made and no Salesforce save is done.
NothingAfterTerminalCallback ==
  [][mpc = "done" /\ callbacks # <<>> => ~UnitStep]_vars

\* C23: no two calls of processAndSaveMonthBatch are handed the same accumulated
\* array of activities.
NoBatchSummarizedTwice ==
  \A i \in 1..Len(batches) : \A j \in 1..Len(batches) :
    i < j => batches[i].activities # batches[j].activities

\* The units of work (month batches and the quarter) that hold an AI call in flight,
\* and those that hold an assistant whose deletion has not been attempted.
InGenerateSummary ==
  Cardinality({p \in Callers : batch[p].pc = "generate"})
    + (IF q.pc = "generate" THEN 1 ELSE 0)
AssistantsAlive ==
  Cardinality({p \in Callers : batch[p].assistant})
    + (IF q.assistant THEN 1 ELSE 0)

\* C24: at every moment at most one generateSummary call is in flight and at most
\* one per-call assistant exists whose deletion has not been attempted.
AtMostOneUnitInFlight ==
  /\ InGenerateSummary <= 1
  /\ AssistantsAlive <= 1

\* C26: generateSummary returns a result only when the run required action with a
\* first tool call that names functionSchema.name and whose arguments parse as JSON;
\* with any other run outcome, and when an API step before it threw, it throws.
ReturnsOnlyParsedArguments ==
  /\ gs.result = "summary" => gs.run = "arguments"
  /\ gs.pc = "done" /\ gs.run # "arguments" => gs.result = "error"

\* C26 happens: a streaming call that uploaded its activities as a file returned the
\* parsed arguments.
ParsedArgumentsReturnedAfterUpload ==
  /\ gs.pc = "done"
  /\ gs.variant = "streaming"
  /\ gs.inputMethod = "file upload"
  /\ gs.run = "arguments"
  /\ gs.result = "summary"

\* C27: on every exit path the temporary file, if it was written, has its unlink
\* attempted and the uploaded file, if there is one, has its deletion attempted, each
\* once and never twice; the cleanup steps do not change whether the call returns or
\* throws, whatever they answer.
CleanupAttemptedOnceAndContained ==
  /\ [](gs.unlinks <= 1 /\ gs.dels <= 1)
  /\ [](gs.pc = "done" => /\ gs.written => gs.unlinks = 1
                          /\ gs.uploaded => gs.dels = 1
                          /\ gs.result \in {"summary", "error"})
  /\ [][gs.pc \in {"unlink", "delFile"} => gs'.result = gs.result]_vars

\* C27 happens: the call returned its result although the unlink failed and the
\* remote deletion, attempted after it, failed too.
ReturnedAfterBothCleanupsFailed ==
  /\ gs.pc = "done"
  /\ gs.result = "summary"
  /\ gs.written /\ gs.uploaded
  /\ gs.unlinks = 1 /\ gs.dels = 1
  /\ gs.tempFilePath /\ gs.fileId

\* A step that creates the assistant of a month batch or of a quarter, and a step
\* that attempts the deletion of one.
AssistantCreated ==
  \/ \E p \in Callers : ~batch[p].assistant /\ batch'[p].assistant
  \/ ~q.assistant /\ q'.assistant
DeletionAttempted ==
  \/ \E p \in Callers : batch[p].pc = "delete" /\ batch'[p].pc # "delete"
  \/ q.pc = "delete" /\ q'.pc # "delete"

\* C28: an assistant is deleted after its unit's AI call and save are over and
\* before the assistant of the next unit is created, so no assistant is created
\* while another one awaits its deletion; the deletion attempt, whatever it answers,
\* leaves overallStatus and failureMessages as they are.
AssistantDeletedBeforeNextIsCreated ==
  /\ [][AssistantCreated => AssistantsAlive = 0]_vars
  /\ [][DeletionAttempted => /\ overallStatus' = overallStatus
                             /\ failureMessages' = failureMessages]_vars

\* The calls of createTimileSummarySalesforceRecords so far that threw.
ThrownCalls == {c \in 1..Len(persist.calls) : persist.calls[c].thrown}

\* C29: a call whose bulk result reports the record as failed returns normally and
\* leaves overallStatus and failureMessages alone; a call whose bulk load throws
\* throws itself, and its caller sets overallStatus to Failed and adds one failure
\* message that names the month or the quarter.
RecordFailureLoggedLoadFailureRethrown ==
  /\ \A c \in 1..Len(persist.calls) :
       /\ persist.calls[c].outcome = "record failed" => ~persist.calls[c].thrown
       /\ persist.calls[c].outcome = "throws" => persist.calls[c].thrown
  /\ overallStatus = IF ThrownCalls = {} THEN "Success" ELSE "Failed"
  /\ Len(failureMessages) = Cardinality(ThrownCalls)
  /\ \A i \in 1..Len(failureMessages) :
       /\ failureMessages[i].year = persist.year
       /\ failureMessages[i].label = persist.periodKey

\* C29 happens: the first save of Q1 2024 got a failed record back and returned with
\* the status still Success, the second one's bulk load threw and the quarter was
\* recorded as failed with one message.
FailedRecordThenFailedLoad ==
  /\ persist.category = "Quarterly" /\ persist.periodKey = "Q1" /\ persist.year = 2024
  /\ Len(persist.calls) = 2
  /\ persist.calls[1].outcome = "record failed" /\ ~persist.calls[1].thrown
  /\ persist.calls[2].outcome = "throws" /\ persist.calls[2].thrown
  /\ overallStatus = "Failed"
  /\ failureMessages = << QuarterFailure(<<2024, "Q1">>, LongErr) >>

\* Every (category, year, period) the pipeline can save: the twelve month names the
\* 'record' handler derives and the four quarters of getQuarterFromMonthIndex.
QuarterLabels == {"Q1", "Q2", "Q3", "Q4"}
AllEntries ==
  [category : {"Monthly"}, year : PersistYears,
   periodKey : {MonthNames[i] : i \in 1..12}]
    \cup [category : {"Quarterly"}, year : PersistYears, periodKey : QuarterLabels]
KeyOf(a) == keyToLowerCase(summaryMapKey(a.category, a.year, a.periodKey))
ResolvedId(a) ==
  createTimileSummarySalesforceRecords(a.category, a.year, a.periodKey,
                                       summaryRecordsMap).Id

\* The label the key of the persisted period must carry: the three letters of the
\* month, or the quarter label.
ShortMonths ==
  << "Jan", "Feb", "Mar", "Apr", "May", "Jun", "Jul", "Aug", "Sep", "Oct", "Nov",
     "Dec" >>
ExpectedLabel ==
  IF persist.category = "Quarterly"
  THEN persist.periodKey
  ELSE ShortMonths[CHOOSE i \in 1..12 : MonthNames[i] = persist.periodKey]
HoldsKey(i) ==
  /\ summaryRecordsMap.items[i].key.label = ExpectedLabel
  /\ summaryRecordsMap.items[i].key.year = persist.year

\* Different (category, year, period) have different keys, whatever the case.
KeysDistinct ==
  \A a \in AllEntries : \A b \in AllEntries : a # b => KeyOf(a) # KeyOf(b)

\* The entry the calls of this run of the persister are for.
Persisted ==
  [category |-> persist.category, year |-> persist.year, periodKey |-> persist.periodKey]

\* A lookup of existing records: entries of different periods hold different ids.
OneRecordPerPeriod ==
  \A i \in 1..Len(summaryRecordsMap.items) : \A j \in 1..Len(summaryRecordsMap.items) :
    keyToLowerCase(summaryRecordsMap.items[i].key)
        # keyToLowerCase(summaryRecordsMap.items[j].key)
      => summaryRecordsMap.items[i].value # summaryRecordsMap.items[j].value

\* C30: the key of an entry is the first three letters of the month and the year
\* (Monthly) or the quarter label and the year (Quarterly); a call queues an update
\* when the lookup holds a record id under that key and a create otherwise; different
\* (category, year, period) have different keys, and with a lookup that holds one
\* record per period no other period resolves to the record id of the one persisted.
KeysSeparatePeriods ==
  /\ \A c \in 1..Len(persist.calls) :
       IF summaryRecordsMap.isArray
            /\ \E i \in 1..Len(summaryRecordsMap.items) : HoldsKey(i)
       THEN /\ persist.calls[c].queued.op = "update"
            /\ \E i \in 1..Len(summaryRecordsMap.items) :
                 HoldsKey(i) /\ persist.calls[c].queued.Id = summaryRecordsMap.items[i].value
       ELSE persist.calls[c].queued = [op |-> "create", Id |-> 0]
  /\ KeysDistinct
  /\ OneRecordPerPeriod /\ ResolvedId(Persisted) # 0
       => \A b \in AllEntries \ {Persisted} : ResolvedId(b) # ResolvedId(Persisted)

\* C30 happens: the lookup holds "Feb 2024" with record 1 and "Mar 2024" with
\* record 2, and the save of March 2024 queued the update of record 2.
MarchResolvesToItsOwnRecord ==
  /\ persist.category = "Monthly" /\ persist.periodKey = "March" /\ persist.year = 2024
  /\ summaryRecordsMap.isArray
  /\ Len(summaryRecordsMap.items) = 2
  /\ summaryRecordsMap.items[1] =
       [key |-> [label |-> "Feb", year |-> 2024, spelling |-> "as built"], value |-> 1]
  /\ summaryRecordsMap.items[2] =
       [key |-> [label |-> "Mar", year |-> 2024, spelling |-> "as built"], value |-> 2]
  /\ Len(persist.calls) > 0
  /\ persist.calls[1].queued = [op |-> "update", Id |-> 2]
  /\ ResolvedId([category |-> "Monthly", year |-> 2024, periodKey |-> "February"]) = 1

\* C25: runs side by side do not interfere.  The file a run uploads holds that run's
\* own activities; the file a run has written is there with its own text until the
\* run itself unlinks it; and whether the run's month fails, with one failure
\* message, depends on nothing but the answers to the run's own external calls.
RunsDoNotInterfere ==
  \A r \in 1..Len(runs) :
    /\ runs[r].uploadedText \in {0, r}
    /\ runs[r].pc = "upload" => TextOf(runs[r].tempFilePath) = r
    /\ runs[r].pc = "done" =>
         /\ runs[r].overallStatus = IF runs[r].apiFailed THEN "Failed" ELSE "Success"
         /\ Len(runs[r].failureMessages) = IF runs[r].apiFailed THEN 1 ELSE 0
    /\ \A x \in 1..Len(runs) :
         x # r /\ runs[r].tempFilePath # NoFile
           => runs[x].tempFilePath # runs[r].tempFilePath

\* C25 happens: two runs for the same account built their file names in the same
\* millisecond, both files were in the directory at once, the first run's month
\* failed and the second run's month succeeded.
TwoRunsOfOneAccountInOneMillisecond ==
  /\ Len(runs) = 2
  /\ runs[1].accountId = runs[2].accountId
  /\ runs[1].tempFilePath.timestamp = runs[2].tempFilePath.timestamp
  /\ runs[1].pc = "done" /\ runs[2].pc = "done"
  /\ runs[1].uploadedText = 1 /\ runs[2].uploadedText = 2
  /\ runs[1].overallStatus = "Failed" /\ runs[2].overallStatus = "Success"

\* The quarter of each month index as the fixed ranges give it.
QuarterRanges ==
  << "Q1", "Q1", "Q1", "Q2", "Q2", "Q2", "Q3", "Q3", "Q3", "Q4", "Q4", "Q4" >>
RangesRespected ==
  \A monthIndex \in 0..11 :
    getQuarterFromMonthIndex(monthIndex) = QuarterRanges[monthIndex + 1]

\* The entries of quarterlyInputs that hold the output of batch b.
EntriesHolding(b) ==
  {i \in 1..Len(quarterlyInputs) :
     \E k \in 1..Len(quarterlyInputs[i].monthSummaries) :
       quarterlyInputs[i].monthSummaries[k].batch = b}

\* C31: month indices 0-2, 3-5, 6-8 and 9-11 give Q1, Q2, Q3 and Q4; an accumulated
\* monthly output is held by one entry of quarterlyInputs, the one of the year and
\* the quarter of its batch, once; and no entry is for the quarter 'Unknown'.
AccumulatedUnderOwnQuarter ==
  /\ RangesRespected
  /\ \A i \in 1..Len(quarterlyInputs) :
       /\ quarterlyInputs[i].quarter \in {"Q1", "Q2", "Q3", "Q4"}
       /\ quarterlyInputs[i].key = <<quarterlyInputs[i].year, quarterlyInputs[i].quarter>>
       /\ \A k \in 1..Len(quarterlyInputs[i].monthSummaries) :
            LET b == quarterlyInputs[i].monthSummaries[k].batch
            IN  /\ batches[b].year = quarterlyInputs[i].year
                /\ QuarterRanges[monthMap[toLowerCase[batches[b].month]] + 1]
                     = quarterlyInputs[i].quarter
                /\ EntriesHolding(b) = {i}
                /\ \A l \in 1..Len(quarterlyInputs[i].monthSummaries) :
                     quarterlyInputs[i].monthSummaries[l].batch = b => l = k
  /\ \A i \in 1..Len(quarterlyInputs) : \A j \in 1..Len(quarterlyInputs) :
       quarterlyInputs[i].key = quarterlyInputs[j].key => i = j

\* C31 happens: the outputs of February and March 2024 are held under 2024-Q1 and
\* the output of April 2024 under 2024-Q2.
TwoQuartersAccumulated ==
  /\ Len(quarterlyInputs) = 2
  /\ quarterlyInputs[1].key = <<2024, "Q1">>
  /\ Len(quarterlyInputs[1].monthSummaries) = 2
  /\ quarterlyInputs[2].key = <<2024, "Q2">>
  /\ Len(quarterlyInputs[2].monthSummaries) = 1
  /\ batches[quarterlyInputs[2].monthSummaries[1].batch].month = "April"

\* C32: every batch handed to processAndSaveMonthBatch is non-empty, holds at most
\* BULK_QUERY_BATCH_SIZE records, and each of its records has the year and the month
\* the batch is labelled with.
BatchesWellFormed ==
  \A i \in 1..Len(batches) :
    /\ Len(batches[i].activities) >= 1
    /\ Len(batches[i].activities) <= BULK_QUERY_BATCH_SIZE
    /\ \A k \in 1..Len(batches[i].activities) :
         /\ batches[i].activities[k].ActivityDate \in Dates
         /\ getUTCFullYear(batches[i].activities[k].ActivityDate) = batches[i].year
         /\ toLocaleMonth(batches[i].activities[k].ActivityDate) = batches[i].month

\* C32 happens: a full sub-batch of February 2024 was handed over by the 'record'
\* handler, and after a month change the 'end' handler handed over March 2024.
SubBatchThenMonthChangeThenEnd ==
  /\ Len(batches) = 2
  /\ batches[1].by = "record" /\ batches[1].month = "February"
  /\ Len(batches[1].activities) = BULK_QUERY_BATCH_SIZE
  /\ batches[2].by = "end" /\ batches[2].month = "March"
  /\ Len(batches[2].activities) = 1

\* The step is the 'record' event of a record without a usable ActivityDate.
UnusableRecordStep ==
  /\ Len(input') = Len(input) + 1
  /\ input'[Len(input')] = 0

\* C33: a record whose ActivityDate is missing or does not parse is in no batch and
\* not in the open list, and its 'record' event leaves the current year and month,
\* the open list, the pause, the batches, overallStatus and failureMessages as they
\* were.
UnusableRecordDropped ==
  /\ [](/\ \A k \in 1..Len(currentMonthActivities) :
             currentMonthActivities[k].ActivityDate # 0
        /\ \A i \in 1..Len(batches) : \A k \in 1..Len(batches[i].activities) :
             batches[i].activities[k].ActivityDate # 0)
  /\ [][UnusableRecordStep =>
          UNCHANGED <<currentYear, currentMonth, currentMonthActivities, streamPaused,
                      flowing, hpc, batch, batches, quarterlyInputs, overallStatus,
                      failureMessages>>]_vars

\* C33 happens: a record without a usable date came between two records of
\* February 2024, and the sub-batch handed over holds the first and the third.
UnusableRecordBetweenTwoOfFebruary ==
  /\ input = <<1, 0, 1>>
  /\ Len(batches) = 1
  /\ Len(batches[1].activities) = 2
  /\ batches[1].activities[1].Id = 1
  /\ batches[1].activities[2].Id = 3

\* C34: a call without activities submits the prompt as it is, with no attachment,
\* and writes and uploads no file; a call in file-upload delivery submits the prompt
\* and the sentence about the attached file, with the one attachment, and never the
\* serialized batch.  (The first program of src/index.js sends the prompt without
\* that sentence.)
PromptAsIsWithoutActivities ==
  /\ gs.count = 0 =>
       /\ gs.inputMethod = "prompt"
       /\ ~gs.tempFilePath /\ ~gs.written /\ ~gs.uploaded /\ ~gs.fileId
       /\ gs.unlinks = 0 /\ gs.dels = 0
       /\ gs.message.sent =>
            /\ gs.message.json = "none"
            /\ ~gs.message.instruction
            /\ gs.message.attachments = 0
  /\ gs.message.sent /\ gs.inputMethod = "file upload" =>
       /\ gs.message.json = "none"
       /\ gs.message.instruction = (gs.variant # "first")
       /\ gs.message.attachments = 1

\* C34 happens: the streaming program's call with more activities than the count
\* threshold submitted its message with the attachment and got its result.
FileUploadMessageSubmitted ==
  /\ gs.variant = "streaming"
  /\ gs.count = DIRECT_INPUT_THRESHOLD("streaming") + 1
  /\ gs.pc = "done"
  /\ gs.message.sent /\ gs.message.instruction /\ gs.message.attachments = 1
  /\ gs.result = "summary"

\* C34 happens as well: a call without activities submitted the bare prompt.
BarePromptSubmitted ==
  /\ gs.variant = "streaming"
  /\ gs.count = 0
  /\ gs.pc = "done"
  /\ gs.message.sent
  /\ gs.result = "summary"

\* C39 as stated: in direct JSON delivery the content submitted is shorter than
\* PROMPT_LENGTH_THRESHOLD.  The streaming and the fetching program measure the
\* prompt with the compact JSON and submit it with the pretty-printed JSON.
SubmittedLengthBelowThreshold ==
  gs.message.sent /\ gs.inputMethod = "direct JSON"
    => gs.message.inlineLength < PROMPT_LENGTH_THRESHOLD(gs.variant)

\* C36: overallStatus only moves downward in the order Success, Partial Success,
\* Failed: no step of the run takes it from Failed to anything else or from Partial
\* Success back to Success, whatever the order of month and quarter failures.
StatusOrder(status) ==
  CASE status = "Success" -> 0
    [] status = "Partial Success" -> 1
    [] status = "Failed" -> 2
StatusOnlyMovesDownward ==
  /\ [](overallStatus \in {"Success", "Partial Success", "Failed"})
  /\ [][StatusOrder(overallStatus') >= StatusOrder(overallStatus)]_vars

\* C36 happens: one quarter's output failed validation (Partial Success), a later
\* quarter threw (Failed), and a quarter after a monthly failure failed validation
\* as well; the normal callback reports Failed.
FailedAfterPartialSuccess ==
  /\ mpc = "done"
  /\ \E i, j \in 1..Len(failureMessages) :
       /\ i < j
       /\ failureMessages[i].kind = "transform"
       /\ failureMessages[j].kind = "quarter"
  /\ overallStatus = "Failed"
  /\ Len(callbacks) = 1 /\ callbacks[1].site = "normal"
  /\ callbacks[1].processResult = "Failed"

\* C37 as stated: a monthly AI output is in its quarter's aggregation input if and
\* only if the batch's assistant creation, AI call and monthly save all completed
\* (the batch has its Monthly save); a failed batch is in no entry.
HasMonthlySave(b) ==
  \E k \in 1..Len(saves) : saves[k].category = "Monthly" /\ saves[k].output.batch = b
OutputAccumulatedIffBatchCompleted ==
  \A b \in 1..Len(batches) :
    /\ EntriesHolding(b) # {} => HasMonthlySave(b)
    /\ HasMonthlySave(b) => batches[b].result = "saved"

\* C38: a Quarterly record is saved only under the (year, quarter) of the quarterKey
\* whose monthly outputs were aggregated, and only with an output that declares that
\* year and quarter; an output that declares another year or quarter, or none, saves
\* nothing, records one failure message and leaves a status that is not Success.
QuarterlySavedUnderOwnKey ==
  /\ [](\A k \in 1..Len(saves) :
          saves[k].category = "Quarterly"
            => /\ saves[k].output.year = saves[k].year
               /\ saves[k].output.quarter = saves[k].period
               /\ saves[k].output.complete
               /\ \E c \in 1..Len(gsCalls) :
                    /\ gsCalls[c].category = "Quarterly"
                    /\ gsCalls[c].key = <<saves[k].year, saves[k].period>>)
  /\ [][(mpc = "quarters" /\ q.pc = "generate" /\ q'.pc = "save")
          => /\ q'.output[1].year = q.key[1]
             /\ q'.output[1].quarter = q.key[2]
             /\ UNCHANGED <<overallStatus, failureMessages, saves>>]_vars
  /\ [][(mpc = "quarters" /\ q.pc = "generate" /\ q'.pc = "delete")
          => /\ saves' = saves
             /\ Len(failureMessages') = Len(failureMessages) + 1
             /\ Appended.kind \in {"transform", "quarter"}
             /\ Appended.year = q.key[1] /\ Appended.label = q.key[2]
             /\ overallStatus' # "Success"]_vars

\* C38 happens: the output for one quarter was rejected by the validation and the
\* output for another quarter was saved under its own key.
OneQuarterRejectedOneSaved ==
  /\ mpc = "done"
  /\ \E i \in 1..Len(failureMessages), k \in 1..Len(saves) :
       /\ failureMessages[i].kind = "transform"
       /\ saves[k].category = "Quarterly"
       /\ saves[k].period # failureMessages[i].label
       /\ ~QuarterlySavedFor(<<failureMessages[i].year, failureMessages[i].label>>)
  /\ overallStatus = "Partial Success"

\* C40: overallStatus is Success exactly when failureMessages is empty, in every state
\* and so when the normal-completion callback is built: a Success callback carries
\* "Summary Processed Successfully" and any other one at least one failure message.
SuccessExactlyWithoutFailureMessages ==
  /\ []((overallStatus = "Success") <=> (failureMessages = <<>>))
  /\ [][(Len(callbacks') = Len(callbacks) + 1
           /\ callbacks'[Len(callbacks')].site = "normal")
          => LET c == callbacks'[Len(callbacks')]
             IN  /\ c.processResult = overallStatus'
                 /\ c.processResult = "Success"
                      => c.message.kind = "Summary Processed Successfully"
                 /\ c.processResult # "Success"
                      => /\ c.message.kind = "Processing finished with issues"
                         /\ c.message.parts = failureMessages'
                         /\ Len(c.message.parts) >= 1]_vars

\* C40 happens: a month failed and a quarter was saved all the same; the normal
\* callback reports Failed with the one recorded message.
FailedCallbackCarriesItsMessage ==
  /\ mpc = "done"
  /\ Len(callbacks) = 1 /\ callbacks[1].site = "normal"
  /\ callbacks[1].processResult = "Failed"
  /\ Len(callbacks[1].message.parts) = 1
  /\ callbacks[1].message.parts[1].kind = "month"
  /\ \E k \in 1..Len(saves) : saves[k].category = "Quarterly"

\* C35 as stated: a terminal callback with processResult Success means that every
\* summary record of the run was accepted by Salesforce: no bulk create or update
\* result of the run had success = false.
SuccessMeansEveryRecordAccepted ==
  \A c \in 1..Len(callbacks) :
    callbacks[c].processResult = "Success"
      => \A k \in 1..Len(persist.calls) : persist.calls[k].outcome = "loaded"

====
